---- MODULE Spec2Model ----
(***************************************************************************)
(* Trust-and-topology core of sn_messaging (node side):                    *)
(*   PrefixMap          src/src/node/network.rs                            *)
(*   SectionProofChain  src/src/node/section/section_proof_chain.rs        *)
(*   SectionPeers       src/src/node/section/section_peers.rs              *)
(*   Section            src/src/node/section/mod.rs                        *)
(*   DkgKey             src/src/node/consensus/dkg.rs                      *)
(*   VerifyStatus       src/src/node/mod.rs                                *)
(*   QueryResponse      src/src/client/mod.rs                              *)
(* Each container is a group of variables with its own specification       *)
(* (SpecMap, SpecPeers, SpecChain, SpecTrust, SpecSection, ...); the       *)
(* variables of the other containers stay at their idle values.            *)
(***************************************************************************)
EXTENDS Integers, Sequences, FiniteSets, TLC

VARIABLES
    map,      \* PrefixMap<T>: the BTreeSet<Entry<T>>, one entry per prefix
    mpre,     \* the map before the last PrefixMap call
    mop,      \* the last PrefixMap call and its argument
    mret,     \* what the last PrefixMap call returned (Option as a set)
    chain,    \* a SectionProofChain: [head, tail]
    cpre,     \* the receiver (self) before the last SectionProofChain call
    cop,      \* the last SectionProofChain call and its arguments
    cret,     \* what the last SectionProofChain call returned
    view,     \* the chain the last call produced beside self (Option; None: a panic)
    tchain,   \* a proof chain received with a message
    trusted,  \* the keys the receiver trusts
    tstatus,  \* the TrustStatus check_trust gave for tchain and trusted
    members,  \* a SectionPeers: the BTreeMap name -> Proven<MemberInfo>, one record per name
    ppre,     \* the members before the last SectionPeers::update
    pop,      \* the record passed to the last SectionPeers::update
    pret,     \* what the last SectionPeers::update returned
    section,  \* the node's Section (Option: None until Section::new succeeds)
    sop,      \* the last Section call
    sret,     \* what the last Section call returned
    snap,     \* the Section returned by the last trimmed (Option)
    einfos,   \* the EldersInfo each of two elders holds for a DKG session (Option)
    dkeys,    \* the DkgKey each of the two elders computed for its EldersInfo (Option)
    qop,      \* the last QueryResponse conversion: the target type and the response
    qret,     \* what the last QueryResponse conversion returned
    vstatus   \* the Result<VerifyStatus> the TrustStatus of tchain was turned into

mapVars == <<map, mpre, mop, mret>>

chainVars == <<chain, cpre, cop, cret, view>>

trustVars == <<tchain, trusted, tstatus>>

peerVars == <<members, ppre, pop, pret>>

sectionVars == <<section, sop, sret, snap>>

dkgVars == <<einfos, dkeys>>

queryVars == <<qop, qret>>

verifyVars == <<vstatus>>

vars == <<map, mpre, mop, mret, chain, cpre, cop, cret, view, tchain, trusted, tstatus,
          members, ppre, pop, pret, section, sop, sret, snap, einfos, dkeys, qop, qret,
          vstatus>>

(***************************************************************************)
(* Bounds                                                                  *)
(***************************************************************************)
\* width of an address (XorName) in bits; prefixes have 0..W bits
W == 2
\* largest number of entries a PrefixMap of the model holds
MaxEntries == 3
\* number of section (BLS) public keys
NumKeys == 3
\* largest number of keys in a proof chain of the model
MaxChainLen == 3
\* width in bits of the machine integers (u64, usize) that index a chain
IndexBits == 3
\* member ages run from MIN_AGE to MIN_AGE + AgeSpan
AgeSpan == 1
\* largest number of member records the Section of the model holds
MaxMembers == 1

(***************************************************************************)
(* Prefix (xor_name crate)                                                 *)
(***************************************************************************)
Bit == {0, 1}

Prefixes == UNION {[1..n -> Bit] : n \in 0..W}

Names == [1..W -> Bit]

bit_count(p) == Len(p)

is_empty(p) == Len(p) = 0

IsPrefixOf(a, b) == Len(a) <= Len(b) /\ SubSeq(b, 1, Len(a)) = a

is_compatible(a, b) == IsPrefixOf(a, b) \/ IsPrefixOf(b, a)

\* strict extension: compatible and longer
is_extension_of(a, b) == is_compatible(a, b) /\ bit_count(a) > bit_count(b)

popped(p) == IF Len(p) = 0 THEN p ELSE SubSeq(p, 1, Len(p) - 1)

pushed(p, bit) == Append(p, bit)

matches(p, name) == IsPrefixOf(p, name)

MaxOf(S) == IF S = {} THEN 0 ELSE CHOOSE x \in S : \A y \in S : y <= x

RECURSIVE is_covered_by_impl(_, _, _)
is_covered_by_impl(p, ps, max_prefix_len) ==
    \/ \E x \in ps : is_compatible(x, p) /\ bit_count(x) <= bit_count(p)
    \/ /\ bit_count(p) <= max_prefix_len
       /\ is_covered_by_impl(pushed(p, 0), ps, max_prefix_len)
       /\ is_covered_by_impl(pushed(p, 1), ps, max_prefix_len)

is_covered_by(p, ps) == is_covered_by_impl(p, ps, MaxOf({bit_count(x) : x \in ps}))

(***************************************************************************)
(* PrefixMap<T>                                                            *)
(***************************************************************************)
\* the payloads an entry can carry beside its prefix
Values == {"a", "b"}

\* T: Borrow<Prefix>: a payload that exposes its prefix
Entries == [prefix : Prefixes, value : Values]

None == {}

Some(x) == {x}

PrefixMap_new == {}

\* BTreeSet::get / take / replace on Entry<T>, whose Eq and Ord are those of the prefix
get(m, p) == {e \in m : e.prefix = p}

replace(m, e) == [set |-> (m \ get(m, e.prefix)) \cup {e}, old |-> get(m, e.prefix)]

prefixes(m) == {e.prefix : e \in m}

descendants(m, p) == {e \in m : is_extension_of(e.prefix, p)}

RECURSIVE prune(_, _)
prune(m, p) ==
    LET m1 == IF is_covered_by(p, prefixes(descendants(m, p)))
              THEN m \ get(m, p)
              ELSE m
    IN  IF is_empty(p) THEN m1 ELSE prune(m1, popped(p))

\* insert that forgets to prune the ancestors of the inserted prefix
insertNoPrune(m, entry) ==
    IF descendants(m, entry.prefix) # {}
    THEN [map |-> m, ret |-> Some(entry)]
    ELSE LET r == replace(m, entry)
         IN  [map |-> r.set, ret |-> r.old]

\* insert that does not look for descendants of the entry's prefix
insertIgnoresDescendants(m, entry) ==
    LET parent_prefix == popped(entry.prefix)
        r == replace(m, entry)
    IN  [map |-> prune(r.set, parent_prefix), ret |-> r.old]

\* insert that prunes the ancestors before it stores the entry
insertPrunesBeforeReplace(m, entry) ==
    IF descendants(m, entry.prefix) # {}
    THEN [map |-> m, ret |-> Some(entry)]
    ELSE LET parent_prefix == popped(entry.prefix)
             r == replace(prune(m, parent_prefix), entry)
         IN  [map |-> r.set, ret |-> r.old]

\* insert that removes every ancestor of the inserted prefix, covered or not
insertDropsAncestors(m, entry) ==
    IF descendants(m, entry.prefix) # {}
    THEN [map |-> m, ret |-> Some(entry)]
    ELSE LET r == replace(m, entry)
         IN  [map |-> {e \in r.set : ~is_extension_of(entry.prefix, e.prefix)},
              ret |-> r.old]

\* insert that hands back the passed entry when it replaced one
insertReturnsEntry(m, entry) ==
    IF descendants(m, entry.prefix) # {}
    THEN [map |-> m, ret |-> Some(entry)]
    ELSE LET parent_prefix == popped(entry.prefix)
             r == replace(m, entry)
         IN  [map |-> prune(r.set, parent_prefix),
              ret |-> IF r.old = None THEN None ELSE Some(entry)]

insert(m, entry) ==
    IF descendants(m, entry.prefix) # {}
    THEN [map |-> m, ret |-> Some(entry)]
    ELSE LET parent_prefix == popped(entry.prefix)
             r == replace(m, entry)
         IN  [map |-> prune(r.set, parent_prefix), ret |-> r.old]

remove(m, p) == [map |-> m \ get(m, p), ret |-> get(m, p)]

\* get_equal_or_ancestor that gives up at the root without looking it up
RECURSIVE get_equal_or_ancestorSkipsRoot(_, _)
get_equal_or_ancestorSkipsRoot(m, prefix) ==
    IF is_empty(prefix) THEN None
    ELSE IF get(m, prefix) # None THEN get(m, prefix)
    ELSE get_equal_or_ancestorSkipsRoot(m, popped(prefix))

\* the loop of get_equal_or_ancestor: look up, stop at the root, pop
\* get_equal_or_ancestor that looks up the prefix itself and none of its ancestors
get_equal_or_ancestorExactOnly(m, prefix) == get(m, prefix)

RECURSIVE get_equal_or_ancestor(_, _)
get_equal_or_ancestor(m, prefix) ==
    IF get(m, prefix) # None THEN get(m, prefix)
    ELSE IF is_empty(prefix) THEN None
    ELSE get_equal_or_ancestor(m, popped(prefix))

\* get_matching that keeps the matching entry with the fewest bits
get_matchingShortest(m, name) ==
    LET matching == {entry \in m : matches(entry.prefix, name)}
    IN  {entry \in matching :
             \A other \in matching : bit_count(other.prefix) >= bit_count(entry.prefix)}

\* get_matching: filter by matches(name), max_by_key(bit_count); two stored
\* prefixes that match one name and have the same bit count are one prefix,
\* so the maximum is one entry
get_matching(m, name) ==
    LET matching == {entry \in m : matches(entry.prefix, name)}
    IN  {entry \in matching :
             \A other \in matching : bit_count(other.prefix) <= bit_count(entry.prefix)}

\* FromIterator: fold insert over the entries in iteration order
RECURSIVE from_iter(_)
from_iter(s) ==
    IF Len(s) = 0 THEN PrefixMap_new
    ELSE insert(from_iter(SubSeq(s, 1, Len(s) - 1)), s[Len(s)]).map

(***************************************************************************)
(* Keys and signatures (threshold_crypto).  A signature is determined by   *)
(* the key that made it and the bytes it was made over; it verifies under  *)
(* a public key and bytes exactly when both are those.                     *)
(***************************************************************************)
Keys == 1..NumKeys

Signatures == [signer : Keys, msg : Keys]

Sign(k, msg) == [signer |-> k, msg |-> msg]

\* PublicKey::verify(&signature, bytes)
verify(public_key, signature, bytes) ==
    signature.signer = public_key /\ signature.msg = bytes

(***************************************************************************)
(* SectionProofChain                                                       *)
(***************************************************************************)
Blocks == [key : Keys, signature : Signatures]

\* Block::verify
Block_verify(block, public_key) == verify(public_key, block.signature, block.key)

SectionProofChain_new(first) == [head |-> first, tail |-> <<>>]

first_key(c) == c.head

last_key(c) == IF Len(c.tail) = 0 THEN c.head ELSE c.tail[Len(c.tail)].key

\* keys(): the head followed by the keys of the tail; index i of the code is
\* element i + 1 of this sequence
keys(c) == <<c.head>> \o [i \in 1..Len(c.tail) |-> c.tail[i].key]

has_key(c, key) == \E i \in 1..Len(keys(c)) : keys(c)[i] = key

\* index_of: the position of the first occurrence, as Option<u64>
index_of(c, key) ==
    IF has_key(c, key)
    THEN Some(CHOOSE i \in 0..Len(c.tail) :
                  /\ keys(c)[i + 1] = key
                  /\ \A j \in 0..(i - 1) : keys(c)[j + 1] # key)
    ELSE None

len(c) == 1 + Len(c.tail)

last_key_index(c) == Len(c.tail)

\* push that does not look for the key in the chain first
pushNoDuplicateCheck(c, key, signature) ==
    IF verify(last_key(c), signature, key)
    THEN [chain |-> [c EXCEPT !.tail = Append(c.tail, [key |-> key, signature |-> signature])],
          ret |-> TRUE]
    ELSE [chain |-> c, ret |-> FALSE]

\* push that accepts a signature made by any key of the chain
pushAnyChainKey(c, key, signature) ==
    IF has_key(c, key) THEN [chain |-> c, ret |-> FALSE]
    ELSE IF \E i \in 1..Len(keys(c)) : verify(keys(c)[i], signature, key)
    THEN [chain |-> [c EXCEPT !.tail = Append(c.tail, [key |-> key, signature |-> signature])],
          ret |-> TRUE]
    ELSE [chain |-> c, ret |-> FALSE]

\* push that appends the block before it finds the signature invalid
pushAppendsFirst(c, key, signature) ==
    IF has_key(c, key) THEN [chain |-> c, ret |-> FALSE]
    ELSE [chain |-> [c EXCEPT !.tail = Append(c.tail, [key |-> key, signature |-> signature])],
          ret |-> verify(last_key(c), signature, key)]

push(c, key, signature) ==
    IF has_key(c, key) THEN [chain |-> c, ret |-> FALSE]
    ELSE IF verify(last_key(c), signature, key)
    THEN [chain |-> [c EXCEPT !.tail = Append(c.tail, [key |-> key, signature |-> signature])],
          ret |-> TRUE]
    ELSE [chain |-> c, ret |-> FALSE]

\* the loop of self_verify and of check_trust: every block verifies under the
\* key before it, starting from current_key
RECURSIVE verify_blocks(_, _)
verify_blocks(current_key, blocks) ==
    IF Len(blocks) = 0 THEN TRUE
    ELSE /\ Block_verify(blocks[1], current_key)
         /\ verify_blocks(blocks[1].key, Tail(blocks))

self_verify(c) == verify_blocks(c.head, c.tail)

\* latest_trusted_key: the highest index whose key is trusted, with the key
latest_trusted_key(c, trusted_keys) ==
    LET hits == {i \in 0..(len(c) - 1) : keys(c)[i + 1] \in trusted_keys}
    IN  IF hits = {} THEN None
        ELSE LET index == MaxOf(hits)
             IN  Some([index |-> index, key |-> keys(c)[index + 1]])

\* check_trust that trusts a chain as soon as one of its keys is trusted
check_trustNoReplay(c, trusted_keys) ==
    IF latest_trusted_key(c, trusted_keys) # None
    THEN "Trusted"
    ELSE IF self_verify(c) THEN "Unknown" ELSE "Invalid"

\* check_trust that wants the whole chain to verify once a key is trusted
check_trustWholeChain(c, trusted_keys) ==
    IF latest_trusted_key(c, trusted_keys) # None
    THEN IF self_verify(c) THEN "Trusted" ELSE "Invalid"
    ELSE IF self_verify(c) THEN "Unknown" ELSE "Invalid"

\* check_trust that starts from the earliest trusted key of the chain
check_trustFromEarliestKey(c, trusted_keys) ==
    LET hits == {i \in 0..(len(c) - 1) : keys(c)[i + 1] \in trusted_keys} IN
    IF hits # {}
    THEN LET index == CHOOSE i \in hits : \A j \in hits : i <= j
         IN  IF verify_blocks(keys(c)[index + 1], SubSeq(c.tail, index + 1, Len(c.tail)))
             THEN "Trusted"
             ELSE "Invalid"
    ELSE IF self_verify(c) THEN "Unknown" ELSE "Invalid"

check_trust(c, trusted_keys) ==
    LET found == latest_trusted_key(c, trusted_keys) IN
    IF found # None
    THEN LET t == CHOOSE x \in found : TRUE
         IN  IF verify_blocks(t.key, SubSeq(c.tail, t.index + 1, Len(c.tail)))
             THEN "Trusted"
             ELSE "Invalid"
    ELSE IF self_verify(c) THEN "Unknown" ELSE "Invalid"

(***************************************************************************)
(* slice.  A range bound is Included(index), Excluded(index) or Unbounded; *)
(* "index + 1" is machine arithmetic: with overflow checks it panics at    *)
(* the largest value, without them it wraps to zero.                       *)
(***************************************************************************)
IndexMax == 2^IndexBits - 1

Min(a, b) == IF a <= b THEN a ELSE b

Max(a, b) == IF a >= b THEN a ELSE b

Included(i) == [kind |-> "Included", index |-> i]

Excluded(i) == [kind |-> "Excluded", index |-> i]

Unbounded == [kind |-> "Unbounded", index |-> 0]

Overflows(i) == i = IndexMax

plus_one(i) == (i + 1) % (IndexMax + 1)

skip(s, n) == SubSeq(s, n + 1, Len(s))

take(s, n) == SubSeq(s, 1, Min(n, Len(s)))

\* slice that clamps the end to the number of blocks, not the number of keys
slice_clampedToBlocks(c, start0, end0) ==
    LET start == Min(start0, Len(c.tail))
        end   == Max(Min(end0, Len(c.tail)), start + 1)
    IN  IF start = 0
        THEN [head |-> c.head, tail |-> SubSeq(c.tail, 1, end - 1)]
        ELSE [head |-> c.tail[start].key, tail |-> SubSeq(c.tail, start + 1, end - 1)]

\* the two clamping lines and the construction of the result
slice_clamped(c, start0, end0) ==
    LET start == Min(start0, Len(c.tail))
        end   == Max(Min(end0, Len(c.tail) + 1), start + 1)
    IN  IF start = 0
        THEN [head |-> c.head, tail |-> SubSeq(c.tail, 1, end - 1)]
        ELSE [head |-> c.tail[start].key, tail |-> SubSeq(c.tail, start + 1, end - 1)]

\* slice(range): None when the call panics, Some(the new chain) otherwise
slice(c, start_bound, end_bound, overflow_checks) ==
    LET start == CASE start_bound.kind = "Included" -> start_bound.index
                   [] start_bound.kind = "Excluded" -> plus_one(start_bound.index)
                   [] OTHER -> 0
        end   == CASE end_bound.kind = "Included" -> plus_one(end_bound.index)
                   [] end_bound.kind = "Excluded" -> end_bound.index
                   [] OTHER -> Len(c.tail) + 1
        overflow == \/ start_bound.kind = "Excluded" /\ Overflows(start_bound.index)
                    \/ end_bound.kind = "Included" /\ Overflows(end_bound.index)
    IN  IF overflow /\ overflow_checks THEN None
        ELSE Some(slice_clamped(c, start, end))

TheOne(opt) == CHOOSE x \in opt : TRUE

\* extend that looks up the last key of self in full_chain before it looks up
\* new_first_key
extendLooksUpLastKeyFirst(c, new_first_key, full_chain) ==
    IF has_key(c, new_first_key) THEN [chain |-> c, ret |-> "AlreadySufficient"]
    ELSE IF index_of(full_chain, last_key(c)) = None
    THEN [chain |-> c, ret |-> "InvalidLastKey"]
    ELSE IF index_of(full_chain, new_first_key) = None
    THEN [chain |-> c, ret |-> "InvalidFirstKey"]
    ELSE LET index_from == TheOne(index_of(full_chain, new_first_key))
             index_to   == TheOne(index_of(full_chain, last_key(c)))
         IN  IF index_from > index_to
             THEN [chain |-> c, ret |-> "InvalidFirstKey"]
             ELSE [chain |-> TheOne(slice(full_chain, Included(index_from),
                                          Included(index_to), TRUE)),
                   ret |-> "Ok"]

\* extend that cuts full_chain before the last key of self instead of after it
extendStopsBeforeLastKey(c, new_first_key, full_chain) ==
    IF has_key(c, new_first_key) THEN [chain |-> c, ret |-> "AlreadySufficient"]
    ELSE IF index_of(full_chain, new_first_key) = None
    THEN [chain |-> c, ret |-> "InvalidFirstKey"]
    ELSE IF index_of(full_chain, last_key(c)) = None
    THEN [chain |-> c, ret |-> "InvalidLastKey"]
    ELSE LET index_from == TheOne(index_of(full_chain, new_first_key))
             index_to   == TheOne(index_of(full_chain, last_key(c)))
         IN  IF index_from > index_to
             THEN [chain |-> c, ret |-> "InvalidFirstKey"]
             ELSE [chain |-> TheOne(slice(full_chain, Included(index_from),
                                          Excluded(index_to), TRUE)),
                   ret |-> "Ok"]

extend(c, new_first_key, full_chain) ==
    IF has_key(c, new_first_key) THEN [chain |-> c, ret |-> "AlreadySufficient"]
    ELSE IF index_of(full_chain, new_first_key) = None
    THEN [chain |-> c, ret |-> "InvalidFirstKey"]
    ELSE IF index_of(full_chain, last_key(c)) = None
    THEN [chain |-> c, ret |-> "InvalidLastKey"]
    ELSE LET index_from == TheOne(index_of(full_chain, new_first_key))
             index_to   == TheOne(index_of(full_chain, last_key(c)))
         IN  IF index_from > index_to
             THEN [chain |-> c, ret |-> "InvalidFirstKey"]
             ELSE [chain |-> TheOne(slice(full_chain, Included(index_from),
                                          Included(index_to), TRUE)),
                   ret |-> "Ok"]

\* check_same_keys: zip stops at the shorter of the two sequences
check_same_keys(a, b) == \A i \in 1..Min(Len(a), Len(b)) : a[i] = b[i]

\* merge that appends other's blocks to all of self's blocks, keeping the
\* blocks of self that come after other's first key
mergeKeepsOverlap(c, other) ==
    IF index_of(c, first_key(other)) # None
    THEN LET first == TheOne(index_of(c, first_key(other))) IN
         IF ~check_same_keys(skip(keys(c), first + 1), skip(keys(other), 1))
         THEN [chain |-> c, ret |-> "MergeError"]
         ELSE IF has_key(c, last_key(other))
         THEN [chain |-> c, ret |-> "Ok"]
         ELSE [chain |-> [c EXCEPT !.tail = c.tail \o other.tail],
               ret |-> "Ok"]
    ELSE IF index_of(other, first_key(c)) # None
    THEN LET first == TheOne(index_of(other, first_key(c))) IN
         IF ~check_same_keys(skip(keys(c), 1), skip(keys(other), first + 1))
         THEN [chain |-> c, ret |-> "MergeError"]
         ELSE IF has_key(other, last_key(c))
         THEN [chain |-> [head |-> other.head, tail |-> other.tail], ret |-> "Ok"]
         ELSE [chain |-> [head |-> other.head,
                          tail |-> other.tail \o c.tail],
               ret |-> "Ok"]
    ELSE [chain |-> c, ret |-> "MergeError"]

merge(c, other) ==
    IF index_of(c, first_key(other)) # None
    THEN LET first == TheOne(index_of(c, first_key(other))) IN
         IF ~check_same_keys(skip(keys(c), first + 1), skip(keys(other), 1))
         THEN [chain |-> c, ret |-> "MergeError"]
         ELSE IF has_key(c, last_key(other))
         THEN [chain |-> c, ret |-> "Ok"]
         ELSE [chain |-> [c EXCEPT !.tail = take(c.tail, first) \o other.tail],
               ret |-> "Ok"]
    ELSE IF index_of(other, first_key(c)) # None
    THEN LET first == TheOne(index_of(other, first_key(c))) IN
         IF ~check_same_keys(skip(keys(c), 1), skip(keys(other), first + 1))
         THEN [chain |-> c, ret |-> "MergeError"]
         ELSE IF has_key(other, last_key(c))
         THEN [chain |-> [head |-> other.head, tail |-> other.tail], ret |-> "Ok"]
         ELSE [chain |-> [head |-> other.head,
                          tail |-> take(other.tail, first) \o c.tail],
               ret |-> "Ok"]
    ELSE [chain |-> c, ret |-> "MergeError"]

(***************************************************************************)
(* Proven<T>, Peer, MemberInfo, EldersInfo.  A Proven value carries the    *)
(* key it claims to be signed by and a signature; the signature is         *)
(* determined by the key that made it and by whether it was made over      *)
(* exactly the serialised value.                                           *)
(***************************************************************************)
MIN_AGE == 4

Ages == MIN_AGE..(MIN_AGE + AgeSpan)

\* two peers, at the two ends of the address space
PeerNames == {[i \in 1..W |-> b] : b \in Bit}

Peers == [name : PeerNames, age : Ages]

Joined == [tag |-> "Joined", dst |-> <<>>]

Left == [tag |-> "Left", dst |-> <<>>]

Relocated(dst) == [tag |-> "Relocated", dst |-> dst]

PeerStates == {Joined, Left} \cup {Relocated(d) : d \in PeerNames}

MemberInfos == [peer : Peers, state : PeerStates]

ValueSignatures == [signer : Keys, intact : BOOLEAN]

Proofs == [public_key : Keys, signature : ValueSignatures]

SignedBy(k) == [public_key |-> k, signature |-> [signer |-> k, intact |-> TRUE]]

Proven(value, proof) == [value |-> value, proof |-> proof]

Proven_self_verify(p) ==
    p.proof.signature.signer = p.proof.public_key /\ p.proof.signature.intact

Proven_verify(p, c) == has_key(c, p.proof.public_key) /\ Proven_self_verify(p)

is_mature(info) == info.peer.age > MIN_AGE

(***************************************************************************)
(* SectionPeers                                                            *)
(***************************************************************************)
SectionPeers_default == {}

member(ms, name) == {r \in ms : r.value.peer.name = name}

\* a transition table that also lets a relocated peer join again
allowedRelocatedRejoins(old, new) ==
    \/ /\ old.state.tag = "Joined" /\ new.state.tag = "Joined"
       /\ new.peer.age > old.peer.age
    \/ old.state.tag = "Joined" /\ new.state.tag = "Left"
    \/ old.state.tag = "Joined" /\ new.state.tag = "Relocated"
    \/ old.state.tag = "Relocated" /\ new.state.tag = "Left"
    \/ old.state.tag = "Relocated" /\ new.state.tag = "Joined"

\* a transition table that also lets a peer that left join again
allowedLeftRejoins(old, new) ==
    \/ /\ old.state.tag = "Joined" /\ new.state.tag = "Joined"
       /\ new.peer.age > old.peer.age
    \/ old.state.tag = "Joined" /\ new.state.tag = "Left"
    \/ old.state.tag = "Joined" /\ new.state.tag = "Relocated"
    \/ old.state.tag = "Relocated" /\ new.state.tag = "Left"
    \/ old.state.tag = "Left" /\ new.state.tag = "Joined"

\* a transition table that takes a Joined record of the same age
allowedSameAge(old, new) ==
    \/ /\ old.state.tag = "Joined" /\ new.state.tag = "Joined"
       /\ new.peer.age >= old.peer.age
    \/ old.state.tag = "Joined" /\ new.state.tag = "Left"
    \/ old.state.tag = "Joined" /\ new.state.tag = "Relocated"
    \/ old.state.tag = "Relocated" /\ new.state.tag = "Left"

\* the match on (old state, new state) in update
allowed(old, new) ==
    \/ /\ old.state.tag = "Joined" /\ new.state.tag = "Joined"
       /\ new.peer.age > old.peer.age
    \/ old.state.tag = "Joined" /\ new.state.tag = "Left"
    \/ old.state.tag = "Joined" /\ new.state.tag = "Relocated"
    \/ old.state.tag = "Relocated" /\ new.state.tag = "Left"

update(ms, new_info) ==
    LET entry == member(ms, new_info.value.peer.name) IN
    IF entry = {}
    THEN [members |-> ms \cup {new_info}, ret |-> TRUE]
    ELSE IF allowed(TheOne(entry).value, new_info.value)
         THEN [members |-> (ms \ entry) \cup {new_info}, ret |-> TRUE]
         ELSE [members |-> ms, ret |-> FALSE]

prune_not_matching(ms, prefix) == {r \in ms : matches(prefix, r.value.peer.name)}

joined(ms) == {r.value : r \in {x \in ms : x.value.state = Joined}}

mature(ms) == {info.peer : info \in {x \in joined(ms) : is_mature(x)}}

(***************************************************************************)
(* Section                                                                 *)
(***************************************************************************)
\* Section::new that takes only an elders_info signed by the last key of the chain
Section_newLastKeyOnly(c, elders_info) ==
    IF last_key(c) # elders_info.proof.public_key THEN None
    ELSE Some([elders_info |-> elders_info, chain |-> c, members |-> SectionPeers_default])

\* Section::new: None is Err(Error::InvalidMessage)
Section_new(c, elders_info) ==
    IF ~has_key(c, elders_info.proof.public_key) THEN None
    ELSE Some([elders_info |-> elders_info, chain |-> c, members |-> SectionPeers_default])

\* update_elders that stores the new elders_info before it pushes the key
update_eldersStoresFirst(s, new_elders_info, new_key_proof) ==
    IF ~Proven_self_verify(new_elders_info) THEN [section |-> s, ret |-> FALSE]
    ELSE LET pushed_chain == push(s.chain, new_elders_info.proof.public_key,
                                  new_key_proof.signature) IN
         IF ~pushed_chain.ret
         THEN [section |-> [s EXCEPT !.elders_info = new_elders_info], ret |-> FALSE]
         ELSE [section |-> [elders_info |-> new_elders_info,
                            chain |-> pushed_chain.chain,
                            members |-> prune_not_matching(s.members,
                                                           new_elders_info.value.prefix)],
               ret |-> TRUE]

\* update_elders that prunes the members by the prefix of the old elders_info
update_eldersPrunesByOldPrefix(s, new_elders_info, new_key_proof) ==
    IF ~Proven_self_verify(new_elders_info) THEN [section |-> s, ret |-> FALSE]
    ELSE LET pushed_chain == push(s.chain, new_elders_info.proof.public_key,
                                  new_key_proof.signature) IN
         IF ~pushed_chain.ret THEN [section |-> s, ret |-> FALSE]
         ELSE [section |-> [elders_info |-> new_elders_info,
                            chain |-> pushed_chain.chain,
                            members |-> prune_not_matching(s.members,
                                                           s.elders_info.value.prefix)],
               ret |-> TRUE]

update_elders(s, new_elders_info, new_key_proof) ==
    IF ~Proven_self_verify(new_elders_info) THEN [section |-> s, ret |-> FALSE]
    ELSE LET pushed_chain == push(s.chain, new_elders_info.proof.public_key,
                                  new_key_proof.signature) IN
         IF ~pushed_chain.ret THEN [section |-> s, ret |-> FALSE]
         ELSE [section |-> [elders_info |-> new_elders_info,
                            chain |-> pushed_chain.chain,
                            members |-> prune_not_matching(s.members,
                                                           new_elders_info.value.prefix)],
               ret |-> TRUE]

\* update_member that checks the signature of the record but not its key
update_memberAnyKey(s, member_info) ==
    IF ~Proven_self_verify(member_info) THEN [section |-> s, ret |-> FALSE]
    ELSE LET r == update(s.members, member_info)
         IN  [section |-> [s EXCEPT !.members = r.members], ret |-> r.ret]

update_member(s, member_info) ==
    IF ~Proven_verify(member_info, s.chain) THEN [section |-> s, ret |-> FALSE]
    ELSE LET r == update(s.members, member_info)
         IN  [section |-> [s EXCEPT !.members = r.members], ret |-> r.ret]

saturating_sub(a, b) == IF a >= b THEN a - b ELSE 0

\* trimmed that counts chain_len keys before the last one
trimmedKeepsOneMore(s, chain_len) ==
    LET first_key_index == saturating_sub(last_key_index(s.chain), chain_len)
    IN  [elders_info |-> s.elders_info,
         chain |-> TheOne(slice(s.chain, Included(first_key_index), Unbounded, TRUE)),
         members |-> SectionPeers_default]

trimmed(s, chain_len) ==
    LET first_key_index == saturating_sub(last_key_index(s.chain),
                                          saturating_sub(chain_len, 1))
    IN  [elders_info |-> s.elders_info,
         chain |-> TheOne(slice(s.chain, Included(first_key_index), Unbounded, TRUE)),
         members |-> SectionPeers_default]

extend_chain(s, new_first_key, full_chain) ==
    LET r == extend(s.chain, new_first_key, full_chain)
    IN  [section |-> [s EXCEPT !.chain = r.chain], ret |-> r.ret]

is_elder(s, name) == \E e \in s.elders_info.value.elders : e.name = name

\* adults that does not leave the elders out
adultsWithElders(s) == mature(s.members)

adults(s) == {peer \in mature(s.members) : ~is_elder(s, peer.name)}

(***************************************************************************)
(* Inputs of the model                                                     *)
(***************************************************************************)
\* sequences of 1..n keys
KeySeqs(n) == UNION {[1..k -> Keys] : k \in 1..n}

\* the chain over a key sequence in which every block is signed by the key
\* before it (what new followed by valid pushes, or a peer holding the
\* secret keys, produces)
SignedChain(ks) ==
    [head |-> ks[1],
     tail |-> [i \in 1..(Len(ks) - 1) |->
                  [key |-> ks[i + 1], signature |-> Sign(ks[i], ks[i + 1])]]]

\* the chains a peer can send: self-verifying, of at most MaxChainLen keys
InputChains == {SignedChain(ks) : ks \in KeySeqs(MaxChainLen)}

\* chains whose blocks are signed by any key: a received chain need not verify
RECURSIVE AnyTails(_)
AnyTails(n) ==
    IF n = 0 THEN {<<>>}
    ELSE AnyTails(n - 1) \cup
         {Append(t, [key |-> k, signature |-> Sign(s, k)]) :
              t \in {x \in AnyTails(n - 1) : Len(x) = n - 1}, k \in Keys, s \in Keys}

ReceivedChains == [head : Keys, tail : AnyTails(MaxChainLen - 1)]

RangeBounds ==
    {Unbounded} \cup
    {Included(i) : i \in (0..MaxChainLen) \cup {IndexMax}} \cup
    {Excluded(i) : i \in (0..MaxChainLen) \cup {IndexMax}}

\* member records carrying a good signature by some key
SignedMembers == {Proven(v, SignedBy(k)) : v \in MemberInfos, k \in Keys}

(***************************************************************************)
(* Idle values of each group of variables                                  *)
(***************************************************************************)
IdleMap ==
    /\ map = PrefixMap_new
    /\ mpre = PrefixMap_new
    /\ mop = [op |-> "new", prefix |-> <<>>, value |-> "-"]
    /\ mret = None

IdleChain ==
    /\ chain = SectionProofChain_new(1)
    /\ cpre = SectionProofChain_new(1)
    /\ cop = [op |-> "new"]
    /\ cret = "Ok"
    /\ view = None

IdleTrust ==
    /\ tchain = SectionProofChain_new(1)
    /\ trusted = {}
    /\ tstatus = "unchecked"

IdlePeers ==
    /\ members = SectionPeers_default
    /\ ppre = SectionPeers_default
    /\ pop = None
    /\ pret = FALSE

IdleSection ==
    /\ section = None
    /\ sop = "none"
    /\ sret = "none"
    /\ snap = None

IdleDkg ==
    /\ einfos = [elder \in 1..2 |-> None]
    /\ dkeys = [elder \in 1..2 |-> None]

IdleQuery ==
    /\ qop = [op |-> "none"]
    /\ qret = "none"

IdleVerify ==
    /\ vstatus = [tag |-> "none", value |-> "unconverted"]

(***************************************************************************)
(* PrefixMap: insert and remove from the empty map                         *)
(***************************************************************************)
InitMap == IdleMap /\ IdleChain /\ IdleTrust /\ IdlePeers /\ IdleSection /\ IdleDkg /\ IdleQuery /\ IdleVerify

Insert ==
    \E entry \in Entries :
        LET r == insert(map, entry) IN
        /\ Cardinality(r.map) <= MaxEntries
        /\ map' = r.map
        /\ mpre' = map
        /\ mop' = [op |-> "insert", prefix |-> entry.prefix, value |-> entry.value]
        /\ mret' = r.ret
        /\ UNCHANGED <<chainVars, trustVars, peerVars, sectionVars, dkgVars, queryVars, verifyVars>>

Remove ==
    \E p \in Prefixes :
        LET r == remove(map, p) IN
        /\ map' = r.map
        /\ mpre' = map
        /\ mop' = [op |-> "remove", prefix |-> p, value |-> "-"]
        /\ mret' = r.ret
        /\ UNCHANGED <<chainVars, trustVars, peerVars, sectionVars, dkgVars, queryVars, verifyVars>>

NextMap == Insert \/ Remove

SpecMap == InitMap /\ [][NextMap]_vars

\* the lookups return a reference and leave the map alone
GetMatching ==
    \E name \in Names :
        /\ map' = map
        /\ mpre' = map
        /\ mop' = [op |-> "get_matching", prefix |-> name, value |-> "-"]
        /\ mret' = get_matching(map, name)
        /\ UNCHANGED <<chainVars, trustVars, peerVars, sectionVars, dkgVars, queryVars, verifyVars>>

GetEqualOrAncestor ==
    \E prefix \in Prefixes :
        /\ map' = map
        /\ mpre' = map
        /\ mop' = [op |-> "get_equal_or_ancestor", prefix |-> prefix, value |-> "-"]
        /\ mret' = get_equal_or_ancestor(map, prefix)
        /\ UNCHANGED <<chainVars, trustVars, peerVars, sectionVars, dkgVars, queryVars, verifyVars>>

NextLookup == Insert \/ Remove \/ GetMatching \/ GetEqualOrAncestor

SpecLookup == InitMap /\ [][NextLookup]_vars

(***************************************************************************)
(* SectionPeers: update from the empty member set                          *)
(***************************************************************************)
InitPeers == IdleMap /\ IdleChain /\ IdleTrust /\ IdlePeers /\ IdleSection /\ IdleDkg /\ IdleQuery /\ IdleVerify

Update ==
    \E new_info \in SignedMembers :
        LET r == update(members, new_info) IN
        /\ members' = r.members
        /\ ppre' = members
        /\ pop' = Some(new_info)
        /\ pret' = r.ret
        /\ UNCHANGED <<mapVars, chainVars, trustVars, sectionVars, dkgVars, queryVars, verifyVars>>

NextPeers == Update

SpecPeers == InitPeers /\ [][NextPeers]_vars

(***************************************************************************)
(* SectionProofChain: push, extend and merge on a chain made by new        *)
(***************************************************************************)
InitChain ==
    /\ IdleMap /\ IdleTrust /\ IdlePeers /\ IdleSection /\ IdleDkg /\ IdleQuery /\ IdleVerify
    /\ \E first \in Keys :
           /\ chain = SectionProofChain_new(first)
           /\ cpre = SectionProofChain_new(first)
    /\ cop = [op |-> "new"]
    /\ cret = "Ok"
    /\ view = None

Push ==
    \E key \in Keys, signature \in Signatures :
        LET r == push(chain, key, signature) IN
        /\ len(chain) < MaxChainLen
        /\ chain' = r.chain
        /\ cpre' = chain
        /\ cop' = [op |-> "push", key |-> key, signature |-> signature]
        /\ cret' = IF r.ret THEN "true" ELSE "false"
        /\ view' = None
        /\ UNCHANGED <<mapVars, trustVars, peerVars, sectionVars, dkgVars, queryVars, verifyVars>>

Extend ==
    \E new_first_key \in Keys, full_chain \in InputChains :
        LET r == extend(chain, new_first_key, full_chain) IN
        /\ chain' = r.chain
        /\ cpre' = chain
        /\ cop' = [op |-> "extend", new_first_key |-> new_first_key,
                   full_chain |-> full_chain]
        /\ cret' = r.ret
        /\ view' = None
        /\ UNCHANGED <<mapVars, trustVars, peerVars, sectionVars, dkgVars, queryVars, verifyVars>>

Merge ==
    \E other \in InputChains :
        LET r == merge(chain, other) IN
        /\ len(chain) <= MaxChainLen
        /\ chain' = r.chain
        /\ cpre' = chain
        /\ cop' = [op |-> "merge", other |-> other]
        /\ cret' = r.ret
        /\ view' = None
        /\ UNCHANGED <<mapVars, trustVars, peerVars, sectionVars, dkgVars, queryVars, verifyVars>>

\* slice returns a new chain and leaves self alone; a panic returns nothing
Slice ==
    \E start_bound \in RangeBounds, end_bound \in RangeBounds, overflow_checks \in BOOLEAN :
        LET r == slice(chain, start_bound, end_bound, overflow_checks) IN
        /\ chain' = chain
        /\ cpre' = chain
        /\ cop' = [op |-> "slice", start_bound |-> start_bound, end_bound |-> end_bound]
        /\ cret' = IF r = None THEN "panic" ELSE "Ok"
        /\ view' = r
        /\ UNCHANGED <<mapVars, trustVars, peerVars, sectionVars, dkgVars, queryVars, verifyVars>>

NextChain == Push \/ Extend \/ Merge

SpecChain == InitChain /\ [][NextChain]_vars

\* the chains made by new and push alone, and their slices
NextPush == Push \/ Slice

SpecPush == InitChain /\ [][NextPush]_vars

(***************************************************************************)
(* merge of two overlapping slices of a chain made by new and push: the    *)
(* receiver is one slice, the argument the other; chain itself is left     *)
(* alone, cpre is the receiver before the merge and view the receiver      *)
(* after it                                                                *)
(***************************************************************************)
MergeSlices ==
    \E i \in 0..(len(chain) - 1), j \in 0..(len(chain) - 1), head_is_self \in BOOLEAN :
        LET to_j   == TheOne(slice(chain, Unbounded, Included(j), TRUE))
            from_i == TheOne(slice(chain, Included(i), Unbounded, TRUE))
            self   == IF head_is_self THEN to_j ELSE from_i
            other  == IF head_is_self THEN from_i ELSE to_j
            r      == merge(self, other)
        IN  /\ i <= j
            /\ chain' = chain
            /\ cpre' = self
            /\ cop' = [op |-> "merge_slices", i |-> i, j |-> j, other |-> other]
            /\ cret' = r.ret
            /\ view' = Some(r.chain)
            /\ UNCHANGED <<mapVars, trustVars, peerVars, sectionVars, dkgVars, queryVars, verifyVars>>

NextSlices == Push \/ MergeSlices

SpecSlices == InitChain /\ [][NextSlices]_vars

(***************************************************************************)
(* check_trust on a received chain                                         *)
(***************************************************************************)
InitTrust ==
    /\ IdleMap /\ IdleChain /\ IdlePeers /\ IdleSection /\ IdleDkg /\ IdleQuery /\ IdleVerify
    /\ tchain \in ReceivedChains
    /\ trusted \in SUBSET Keys
    /\ tstatus = "unchecked"

CheckTrust ==
    /\ tstatus = "unchecked"
    /\ tstatus' = check_trust(tchain, trusted)
    /\ UNCHANGED <<tchain, trusted, mapVars, chainVars, peerVars, sectionVars, dkgVars, queryVars, verifyVars>>

NextTrust == CheckTrust

SpecTrust == InitTrust /\ [][NextTrust]_vars

(***************************************************************************)
(* TrustStatus into Result<VerifyStatus>: the status check_trust gave for  *)
(* the proof chain of a message is turned into the verification result     *)
(***************************************************************************)
\* the conversion that lets an Invalid chain through as fully verified
TrustStatus_intoAcceptsInvalid(status) ==
    IF status = "Unknown"
    THEN [tag |-> "Ok", value |-> "Unknown"]
    ELSE [tag |-> "Ok", value |-> "Full"]

TrustStatus_into(status) ==
    CASE status = "Trusted" -> [tag |-> "Ok", value |-> "Full"]
      [] status = "Unknown" -> [tag |-> "Ok", value |-> "Unknown"]
      [] status = "Invalid" -> [tag |-> "Err", value |-> "InvalidMessage"]

Into ==
    /\ tstatus # "unchecked"
    /\ vstatus = [tag |-> "none", value |-> "unconverted"]
    /\ vstatus' = TrustStatus_into(tstatus)
    /\ UNCHANGED <<trustVars, mapVars, chainVars, peerVars, sectionVars, dkgVars, queryVars>>

NextVerify == CheckTrust \/ Into

SpecVerify == InitTrust /\ [][NextVerify]_vars

(***************************************************************************)
(* Section: new, then update_elders, update_member, extend_chain, trimmed  *)
(***************************************************************************)
\* the prefixes a section of the model has: the whole space, or after a
\* split the half that starts with bit 0
SectionPrefixes == {p \in Prefixes : Len(p) <= 1 /\ \A i \in 1..Len(p) : p[i] = 0}

\* the elder of the model: the all-zero peer, mature
TheElders == {[name |-> [i \in 1..W |-> 0], age |-> MIN_AGE + 1]}

EldersInfos == [elders : {TheElders}, prefix : SectionPrefixes]

\* elders infos as received: signed by the key they name, over the value or not
ProvenEldersInfos ==
    {Proven(v, [public_key |-> k, signature |-> [signer |-> k, intact |-> ok]]) :
         v \in EldersInfos, k \in Keys, ok \in BOOLEAN}

\* member records as received: a peer that joined young, joined mature, left
\* or was relocated to the all-one address
SectionMemberInfos ==
    {v \in MemberInfos :
         /\ v.state.tag = "Relocated" => v.state.dst = [i \in 1..W |-> 1]
         /\ v.state.tag # "Joined" => v.peer.age = MIN_AGE + 1}

ProvenMembers ==
    {Proven(v, [public_key |-> k, signature |-> [signer |-> k, intact |-> ok]]) :
         v \in SectionMemberInfos, k \in Keys, ok \in BOOLEAN}

\* the chains a Section is built from and extended with: self-verifying and
\* free of duplicate keys
SectionChains == {c \in InputChains : \A i, j \in 1..len(c) : keys(c)[i] = keys(c)[j] => i = j}

\* bls_signature_aggregator::Proof of new_key as received by a section whose
\* chain is c: a signature over new_key by any key, or by the last key of c
\* over any key
KeyProofs(c, new_key) ==
    {[public_key |-> sig.signer, signature |-> sig] :
         sig \in {Sign(k, new_key) : k \in Keys} \cup {Sign(last_key(c), k) : k \in Keys}}

InitSection == IdleMap /\ IdleChain /\ IdleTrust /\ IdlePeers /\ IdleSection /\ IdleDkg /\ IdleQuery /\ IdleVerify

New ==
    \E c \in SectionChains, elders_info \in ProvenEldersInfos :
        /\ section = None
        /\ Proven_self_verify(elders_info)
        /\ section' = Section_new(c, elders_info)
        /\ sop' = "new"
        /\ sret' = IF Section_new(c, elders_info) = None THEN "InvalidMessage" ELSE "Ok"
        /\ snap' = None
        /\ UNCHANGED <<mapVars, chainVars, trustVars, peerVars, dkgVars, queryVars, verifyVars>>

UpdateElders ==
    /\ section # None
    /\ \E new_elders_info \in ProvenEldersInfos :
       \E new_key_proof \in KeyProofs(TheOne(section).chain,
                                      new_elders_info.proof.public_key) :
        LET r == update_elders(TheOne(section), new_elders_info, new_key_proof) IN
        /\ len(TheOne(section).chain) < MaxChainLen
        /\ section' = Some(r.section)
        /\ sop' = "update_elders"
        /\ sret' = IF r.ret THEN "true" ELSE "false"
        /\ snap' = None
        /\ UNCHANGED <<mapVars, chainVars, trustVars, peerVars, dkgVars, queryVars, verifyVars>>

UpdateMember ==
    /\ section # None
    /\ \E member_info \in ProvenMembers :
        LET r == update_member(TheOne(section), member_info) IN
        /\ Cardinality(r.section.members) <= MaxMembers
        /\ section' = Some(r.section)
        /\ sop' = "update_member"
        /\ sret' = IF r.ret THEN "true" ELSE "false"
        /\ snap' = None
        /\ UNCHANGED <<mapVars, chainVars, trustVars, peerVars, dkgVars, queryVars, verifyVars>>

ExtendChain ==
    /\ section # None
    /\ \E new_first_key \in Keys, full_chain \in SectionChains :
        LET r == extend_chain(TheOne(section), new_first_key, full_chain) IN
        /\ section' = Some(r.section)
        /\ sop' = "extend_chain"
        /\ sret' = r.ret
        /\ snap' = None
        /\ UNCHANGED <<mapVars, chainVars, trustVars, peerVars, dkgVars, queryVars, verifyVars>>

\* trimmed returns a new Section and leaves self alone
Trimmed ==
    /\ section # None
    /\ \E chain_len \in 0..(MaxChainLen + 1) :
        /\ section' = section
        /\ sop' = "trimmed"
        /\ sret' = "Ok"
        /\ snap' = Some(trimmed(TheOne(section), chain_len))
        /\ UNCHANGED <<mapVars, chainVars, trustVars, peerVars, dkgVars, queryVars, verifyVars>>

NextSection == New \/ UpdateElders \/ UpdateMember \/ ExtendChain \/ Trimmed

SpecSection == InitSection /\ [][NextSection]_vars

(***************************************************************************)
(* Section::adults on a section that took in up to two member records      *)
(***************************************************************************)
MaxAdultMembers == 2

UpdateMembers ==
    /\ section # None
    /\ \E member_info \in ProvenMembers :
        LET r == update_member(TheOne(section), member_info) IN
        /\ Cardinality(r.section.members) <= MaxAdultMembers
        /\ section' = Some(r.section)
        /\ sop' = "update_member"
        /\ sret' = IF r.ret THEN "true" ELSE "false"
        /\ snap' = None
        /\ UNCHANGED <<mapVars, chainVars, trustVars, peerVars, dkgVars, queryVars, verifyVars>>

\* adults is a query: it collects the peers the iterator yields
Adults ==
    /\ section # None
    /\ section' = section
    /\ sop' = "adults"
    /\ sret' = adults(TheOne(section))
    /\ snap' = None
    /\ UNCHANGED <<mapVars, chainVars, trustVars, peerVars, dkgVars, queryVars, verifyVars>>

NextAdults == New \/ UpdateMembers \/ Adults

SpecAdults == InitSection /\ [][NextAdults]_vars

(***************************************************************************)
(* DkgKey::new: two elders each build the EldersInfo of the candidates and *)
(* hash it into the identifier of the key-generation session.  A name is   *)
(* W bytes (one per bit of the model), an age one byte, a bit count the    *)
(* eight little-endian bytes of a usize.  Sha3 is taken collision free: a  *)
(* digest stands for the bytes that were fed to the hasher.  An EldersInfo *)
(* is a value: each elder builds its own once.                             *)
(***************************************************************************)
MaxElders == 2

\* peer::Peer with its socket address (one of two)
Candidates == [name : PeerNames, age : Ages, addr : 1..2]

\* Ord of XorName: the byte arrays compared lexicographically
NameLess(a, b) ==
    \E i \in 1..W : a[i] < b[i] /\ \A j \in 1..(i - 1) : a[j] = b[j]

\* BTreeMap<XorName, Peer>::insert on the map kept as its values in key order
BTreeMap_insert(m, peer) ==
    IF \E i \in 1..Len(m) : m[i].name = peer.name
    THEN [i \in 1..Len(m) |-> IF m[i].name = peer.name THEN peer ELSE m[i]]
    ELSE LET k == Cardinality({i \in 1..Len(m) : NameLess(m[i].name, peer.name)})
         IN  SubSeq(m, 1, k) \o <<peer>> \o SubSeq(m, k + 1, Len(m))

RECURSIVE collect(_, _)
collect(peers, m) ==
    IF peers = <<>> THEN m
    ELSE collect(Tail(peers), BTreeMap_insert(m, Head(peers)))

EldersInfo_new(elders, prefix) ==
    [elders |-> collect(elders, <<>>), prefix |-> prefix]

\* Prefix::name: the prefix's bits followed by zeros
Prefix_name(p) == [i \in 1..W |-> IF i <= Len(p) THEN p[i] ELSE 0]

\* usize::to_le_bytes: the least significant byte first
RECURSIVE to_le_bytes(_, _)
to_le_bytes(n, size) ==
    IF size = 0 THEN <<>>
    ELSE <<n % 256>> \o to_le_bytes(n \div 256, size - 1)

Sha3_v256(bytes) == bytes

\* the loop over the elders that feeds the names and leaves the ages out
RECURSIVE update_namesOnly(_)
update_namesOnly(peers) ==
    IF peers = <<>> THEN <<>>
    ELSE Head(peers).name \o update_namesOnly(Tail(peers))

DkgKey_newIgnoresAges(elders_info) ==
    Sha3_v256(update_namesOnly(elders_info.elders)
              \o Prefix_name(elders_info.prefix)
              \o to_le_bytes(bit_count(elders_info.prefix), 8))

\* the loop over elders_info.elders.values(): name, then age, of each peer
RECURSIVE update_peers(_)
update_peers(peers) ==
    IF peers = <<>> THEN <<>>
    ELSE Head(peers).name \o <<Head(peers).age>> \o update_peers(Tail(peers))

DkgKey_new(elders_info) ==
    Sha3_v256(update_peers(elders_info.elders)
              \o Prefix_name(elders_info.prefix)
              \o to_le_bytes(bit_count(elders_info.prefix), 8))

\* the candidates as an elder is handed them: in any order
CandidateSeqs ==
    {<<>>} \cup {<<a>> : a \in Candidates} \cup {<<a, b>> : a, b \in Candidates}

InitDkg == IdleMap /\ IdleChain /\ IdleTrust /\ IdlePeers /\ IdleSection /\ IdleDkg /\ IdleQuery /\ IdleVerify

NewEldersInfo ==
    \E elder \in 1..2, elders \in CandidateSeqs, prefix \in {p \in Prefixes : Len(p) <= 1} :
        /\ einfos[elder] = None
        /\ Len(elders) <= MaxElders
        /\ einfos' = [einfos EXCEPT ![elder] = Some(EldersInfo_new(elders, prefix))]
        /\ dkeys' = [dkeys EXCEPT ![elder] = None]
        /\ UNCHANGED <<mapVars, chainVars, trustVars, peerVars, sectionVars, queryVars, verifyVars>>

NewDkgKey ==
    \E elder \in 1..2 :
        /\ einfos[elder] # None
        /\ dkeys[elder] = None
        /\ dkeys' = [dkeys EXCEPT ![elder] = Some(DkgKey_new(TheOne(einfos[elder])))]
        /\ UNCHANGED <<einfos, mapVars, chainVars, trustVars, peerVars, sectionVars, queryVars, verifyVars>>

NextDkg == NewEldersInfo \/ NewDkgKey

SpecDkg == InitDkg /\ [][NextDkg]_vars

(***************************************************************************)
(* TryFrom<QueryResponse>: the impls the try_from! macro generates, one    *)
(* per result type.  A response is a variant holding Ok(data) or Err(e).   *)
(***************************************************************************)
QueryVariants ==
    {"GetChunk", "GetMap", "GetMapShell", "GetMapVersion", "ListMapEntries",
     "ListMapKeys", "ListMapValues", "ListMapUserPermissions", "ListMapPermissions",
     "GetMapValue", "GetSequence", "GetSequenceRange", "GetSequenceLastEntry",
     "GetSequencePublicPolicy", "GetSequencePrivatePolicy",
     "GetSequenceUserPermissions", "GetRegister", "GetRegisterOwner", "ReadRegister",
     "GetRegisterPolicy", "GetRegisterUserPermissions", "GetBalance", "GetHistory",
     "GetStoreCost"}

\* try_from!($ok_type, $($variant),*): the variants each result type is given
variants_of ==
    [Chunk |-> {"GetChunk"},
     Map |-> {"GetMap", "GetMapShell"},
     u64 |-> {"GetMapVersion"},
     MapEntries |-> {"ListMapEntries"},
     BTreeSet_Vec_u8 |-> {"ListMapKeys"},
     MapValues |-> {"ListMapValues"},
     MapPermissionSet |-> {"ListMapUserPermissions"},
     BTreeMap_PublicKey_MapPermissionSet |-> {"ListMapPermissions"},
     MapValue |-> {"GetMapValue"},
     Sequence |-> {"GetSequence"},
     SequenceEntries |-> {"GetSequenceRange"},
     u64_SequenceEntry |-> {"GetSequenceLastEntry"},
     SequencePublicPolicy |-> {"GetSequencePublicPolicy"},
     SequencePrivatePolicy |-> {"GetSequencePrivatePolicy"},
     SequencePermissions |-> {"GetSequenceUserPermissions"},
     Register |-> {"GetRegister"},
     PublicKey |-> {"GetRegisterOwner"},
     BTreeSet_EntryHash_Entry |-> {"ReadRegister"},
     Policy |-> {"GetRegisterPolicy"},
     Permissions |-> {"GetRegisterUserPermissions"},
     Token |-> {"GetBalance"},
     ActorHistory |-> {"GetHistory"}]

\* two of the errors a response can carry
ResponseErrors == {"AccessDenied", "DataNotFound"}

\* Result<T>: Ok(data) with one of two payloads, or Err(error)
QueryResponses ==
    [variant : QueryVariants, tag : {"Ok"}, payload : 1..2] \cup
    [variant : QueryVariants, tag : {"Err"}, payload : ResponseErrors]

\* try_from that reports the error of an accepted variant as a wrong type
try_fromHidesError(ok_type, response) ==
    IF response.variant \in variants_of[ok_type] /\ response.tag = "Ok"
    THEN [tag |-> "Ok", payload |-> response.payload]
    ELSE [tag |-> "Err", payload |-> <<"WrongType">>]

try_from(ok_type, response) ==
    IF response.variant \in variants_of[ok_type]
    THEN IF response.tag = "Ok"
         THEN [tag |-> "Ok", payload |-> response.payload]
         ELSE [tag |-> "Err", payload |-> <<"Response", response.payload>>]
    ELSE [tag |-> "Err", payload |-> <<"WrongType">>]

\* a response has arrived and is not converted yet
InitQuery ==
    /\ IdleMap /\ IdleChain /\ IdleTrust /\ IdlePeers /\ IdleSection /\ IdleDkg /\ IdleVerify
    /\ \E response \in QueryResponses :
           qop = [op |-> "received", ok_type |-> "-", response |-> response]
    /\ qret = "none"

\* try_from takes the response by value: it is converted once
TryFrom ==
    \E ok_type \in DOMAIN variants_of :
        /\ qop.op = "received"
        /\ qop' = [qop EXCEPT !.op = "try_from", !.ok_type = ok_type]
        /\ qret' = try_from(ok_type, qop.response)
        /\ UNCHANGED <<mapVars, chainVars, trustVars, peerVars, sectionVars, dkgVars, verifyVars>>

NextQuery == TryFrom

SpecQuery == InitQuery /\ [][NextQuery]_vars

(***************************************************************************)
(* Claims about PrefixMap (specification SpecMap)                          *)
(***************************************************************************)
Child(p, bit) == Append(p, bit)

Stored(m, p) == get(m, p) # {}

\* C1: minimal cover. In every map reachable from the empty map by insert and
\* remove, no stored prefix is covered by the stored strict extensions of it;
\* in particular a prefix whose two one-bit children are both stored is not
\* stored itself.
C1_MinimalCover ==
    /\ \A e \in map : ~is_covered_by(e.prefix, prefixes(descendants(map, e.prefix)))
    /\ \A p \in Prefixes :
           (Len(p) < W /\ Stored(map, Child(p, 0)) /\ Stored(map, Child(p, 1)))
               => ~Stored(map, p)

\* C1 witness: the last call inserted the second child of a stored prefix and
\* the prune removed that prefix (and one more ancestor above it, or not).
C1_Witness ==
    /\ mop.op = "insert"
    /\ Len(mop.prefix) > 0
    /\ Stored(mpre, popped(mop.prefix))
    /\ ~Stored(map, popped(mop.prefix))
    /\ Stored(map, Child(popped(mop.prefix), 0))
    /\ Stored(map, Child(popped(mop.prefix), 1))

\* C2: insert is order-insensitive. For every reachable map and every two
\* entries with different prefixes, inserting the first then the second gives
\* the same map as inserting the second then the first.
C2_InsertOrderInsensitive ==
    \A e1, e2 \in Entries :
        e1.prefix # e2.prefix =>
            insert(insert(map, e1).map, e2).map = insert(insert(map, e2).map, e1).map

(***************************************************************************)
(* Claims about SectionPeers (specification SpecPeers)                     *)
(***************************************************************************)
\* C3: SectionPeers::update is commutative. For every reachable member set and
\* every two member records, applying update with the first and then the
\* second leaves the same members as applying the second and then the first.
C3_UpdateCommutes ==
    \A r1, r2 \in SignedMembers :
        update(update(members, r1).members, r2).members
            = update(update(members, r2).members, r1).members

(***************************************************************************)
(* Claims about check_trust (specification SpecTrust)                      *)
(***************************************************************************)
\* the blocks (by key index) whose signature does not verify under the key
\* immediately before them
BadBlocks(c) == {i \in 1..Len(c.tail) : ~Block_verify(c.tail[i], keys(c)[i])}

\* the indices of the keys of the chain that are trusted
TrustedIndices(c, trusted_keys) == {i \in 0..Len(c.tail) : keys(c)[i + 1] \in trusted_keys}

\* C4 as stated: check_trust returns Invalid whenever any block of the chain
\* carries a signature that does not verify against the key immediately
\* preceding it, for every set of trusted keys.
C4_InvalidOnAnyBadBlock ==
    (tstatus # "unchecked" /\ BadBlocks(tchain) # {}) => tstatus = "Invalid"

\* C4 amended: check_trust returns Invalid whenever a block that comes after
\* the latest trusted key of the chain (any block, when no key of the chain is
\* trusted) carries a signature that does not verify against the key
\* immediately preceding it.
C4_InvalidOnBadBlockAfterTrusted ==
    (/\ tstatus # "unchecked"
     /\ \E i \in BadBlocks(tchain) : \A j \in TrustedIndices(tchain, trusted) : j < i)
        => tstatus = "Invalid"

\* C4 witness: a chain with a trusted key, a bad block after the latest
\* trusted key, checked and found Invalid.
C4_Witness ==
    /\ tstatus = "Invalid"
    /\ TrustedIndices(tchain, trusted) # {}
    /\ \E i \in BadBlocks(tchain) : \A j \in TrustedIndices(tchain, trusted) : j < i

\* C34: the classification of check_trust is total and exact.  It returns
\* Trusted if and only if some key of the chain is trusted and every block
\* after the latest (highest-index) trusted key verifies against the key
\* before it; Unknown if and only if no key of the chain is trusted and the
\* whole chain self-verifies; Invalid in every other case.  In particular a
\* trusted set holding the first key of a self-verifying chain gives Trusted,
\* and a trusted set holding only the last key gives Trusted.
C34_TrustClassification ==
    tstatus # "unchecked" =>
        LET T == TrustedIndices(tchain, trusted)
            B == BadBlocks(tchain)
            isTrusted == T # {} /\ \A i \in B : \E j \in T : i <= j
            isUnknown == T = {} /\ B = {}
        IN  /\ tstatus \in {"Trusted", "Unknown", "Invalid"}
            /\ tstatus = "Trusted" <=> isTrusted
            /\ tstatus = "Unknown" <=> isUnknown
            /\ tstatus = "Invalid" <=> (~isTrusted /\ ~isUnknown)
            /\ (first_key(tchain) \in trusted /\ B = {}) => tstatus = "Trusted"
            /\ trusted = {last_key(tchain)} => tstatus = "Trusted"

\* C34 witness: a chain with two trusted keys and a bad block between them,
\* checked and found Trusted.
C34_Witness ==
    /\ tstatus = "Trusted"
    /\ \E i \in BadBlocks(tchain) :
           /\ \E j \in TrustedIndices(tchain, trusted) : j < i
           /\ \E j \in TrustedIndices(tchain, trusted) : i <= j

\* the index of the latest trusted key of the chain
LatestTrustedIndex(c, trusted_keys) ==
    CHOOSE i \in TrustedIndices(c, trusted_keys) :
        \A j \in TrustedIndices(c, trusted_keys) : j <= i

\* C38: trust depends only on the suffix from the latest trusted key.  When
\* some key of the chain is trusted and i is the index of the latest trusted
\* key, check_trust on the whole chain returns the status that check_trust
\* returns on chain.slice(i..); the blocks before index i, valid or
\* corrupted, do not influence the result: a chain that differs from it only
\* before index i gets the same status.
C38_TrustOfSuffix ==
    (tstatus # "unchecked" /\ TrustedIndices(tchain, trusted) # {}) =>
        LET i == LatestTrustedIndex(tchain, trusted) IN
        /\ \A overflow_checks \in BOOLEAN :
               LET suffix == slice(tchain, Included(i), Unbounded, overflow_checks)
               IN  suffix # None /\ check_trust(TheOne(suffix), trusted) = tstatus
        /\ \A other \in ReceivedChains :
               ( /\ len(other) = len(tchain)
                 /\ TrustedIndices(other, trusted) # {}
                 /\ LatestTrustedIndex(other, trusted) = i
                 /\ \A k \in (i + 1)..len(tchain) : keys(other)[k] = keys(tchain)[k]
                 /\ \A k \in (i + 1)..Len(tchain.tail) : other.tail[k] = tchain.tail[k] )
                   => check_trust(other, trusted) = tstatus

\* C38 witness: a chain whose latest trusted key is neither its first nor its
\* last key, with a bad block at or before that key, was checked and Trusted.
C38_Witness ==
    /\ tstatus = "Trusted"
    /\ TrustedIndices(tchain, trusted) # {}
    /\ LatestTrustedIndex(tchain, trusted) >= 1
    /\ LatestTrustedIndex(tchain, trusted) < Len(tchain.tail)
    /\ \E b \in BadBlocks(tchain) : b <= LatestTrustedIndex(tchain, trusted)

(***************************************************************************)
(* Claims about SectionProofChain (specifications SpecChain and SpecPush)  *)
(***************************************************************************)
Succeeded == cret \in {"true", "Ok"}

\* C5: a chain never shrinks. After a successful push, extend or merge every
\* key that was in the chain before the call is still in it and the chain is
\* not shorter.
C5_NeverShrinks ==
    (cop.op \in {"push", "extend", "merge"} /\ Succeeded) =>
        /\ \A i \in 1..len(cpre) : has_key(chain, keys(cpre)[i])
        /\ len(chain) >= len(cpre)

\* C8: push rejects without side effect. push(key, sig) returns false and
\* leaves head and blocks unchanged when key is already in the chain, whatever
\* the signature, or when sig is not a valid signature over key by the last
\* key of the chain.
C8_PushRejects ==
    (/\ cop.op = "push"
     /\ \/ has_key(cpre, cop.key)
        \/ ~verify(last_key(cpre), cop.signature, cop.key))
        => (cret = "false" /\ chain = cpre)

\* C8 witness: a push onto a chain of two or more keys, of a key already in
\* the chain with a signature over it that the last key did make, was rejected.
C8_Witness ==
    /\ cop.op = "push"
    /\ len(cpre) >= 2
    /\ has_key(cpre, cop.key)
    /\ verify(last_key(cpre), cop.signature, cop.key)
    /\ cret = "false"

\* C9: key-rotation authorization. push returns true only if sig is the
\* signature over key by the key that is last in the chain at the time of the
\* call (no earlier key of the chain and no key outside it will do), and then
\* the key sequence is the old one followed by key.
C9_PushAuthorized ==
    (cop.op = "push" /\ cret = "true") =>
        /\ cop.signature = Sign(last_key(cpre), cop.key)
        /\ keys(chain) = Append(keys(cpre), cop.key)

\* C9 witness: a push succeeded on a chain that had an earlier key beside its
\* last key.
C9_Witness ==
    /\ cop.op = "push"
    /\ cret = "true"
    /\ len(cpre) >= 2
    /\ first_key(cpre) # last_key(cpre)

NoDuplicateKeys(c) == \A i, j \in 1..len(c) : keys(c)[i] = keys(c)[j] => i = j

\* C10: chain validity. Every chain obtained from new by push calls, and every
\* slice of such a chain, has pairwise distinct keys and self-verifies.
C10_ChainValid ==
    /\ NoDuplicateKeys(chain) /\ self_verify(chain)
    /\ view # None => (NoDuplicateKeys(TheOne(view)) /\ self_verify(TheOne(view)))

\* C10 witness: a chain of three keys made by pushes, and a slice of it that
\* starts after its head and holds two keys.
C10_Witness ==
    /\ len(chain) = 3
    /\ cop.op = "slice"
    /\ view # None
    /\ len(TheOne(view)) = 2
    /\ first_key(TheOne(view)) # first_key(chain)

(***************************************************************************)
(* Claims about Section (specification SpecSection)                        *)
(***************************************************************************)
\* C6: in every Section reachable from a successful Section::new by
\* update_elders, update_member and extend_chain calls, the chain contains the
\* public key that signs the current elders_info.
C6_ChainHasEldersKey ==
    section # None =>
        has_key(TheOne(section).chain, TheOne(section).elders_info.proof.public_key)

\* C7: trimmed always retains the current signing key. For every Section and
\* every chain_len the chain of trimmed(chain_len) contains the public key
\* that signs the snapshot's elders_info.
C7_TrimmedHasEldersKey ==
    snap # None =>
        has_key(TheOne(snap).chain, TheOne(snap).elders_info.proof.public_key)

(***************************************************************************)
(* Claims about merge and extend (specification SpecChain)                 *)
(***************************************************************************)
\* a well-formed chain: it self-verifies and its keys are pairwise distinct
WellFormed(c) == self_verify(c) /\ NoDuplicateKeys(c)

\* the chain passed to the last merge (other) or extend (full_chain)
ArgumentChain == IF cop.op = "merge" THEN cop.other ELSE cop.full_chain

\* C11: merge and extend do not corrupt a chain. When self and the argument
\* chain each self-verify and have no duplicate keys, a successful merge or
\* extend leaves self self-verifying and without duplicate keys, and a failed
\* one leaves self unchanged.
C11_MergeExtendKeepWellFormed ==
    (/\ cop.op \in {"merge", "extend"}
     /\ WellFormed(cpre)
     /\ WellFormed(ArgumentChain))
        => IF Succeeded THEN WellFormed(chain) ELSE chain = cpre

\* C13: SectionProofChain::merge is commutative. For every two chains a and b
\* that each self-verify and have no duplicate keys, a.merge(b) and b.merge(a)
\* either both fail with MergeError or both succeed leaving the two receivers
\* equal (same head and same blocks).
C13_MergeCommutes ==
    WellFormed(chain) =>
        \A b \in SectionChains :
            LET ab == merge(chain, b)
                ba == merge(b, chain)
            IN  \/ ab.ret = "MergeError" /\ ba.ret = "MergeError"
                \/ ab.ret = "Ok" /\ ba.ret = "Ok" /\ ab.chain = ba.chain

\* the keys of the two chains differ at some position of their overlap, other
\* being laid on self with other's first key on its first occurrence in self
DifferOnOverlap(self, other) ==
    LET first == TheOne(index_of(self, first_key(other)))
    IN  \E p \in 1..(len(other) - 1) :
            /\ first + p <= len(self) - 1
            /\ keys(self)[first + p + 1] # keys(other)[p + 1]

\* the sub-windows of a chain: its keys s..=e with the blocks that carry them
Windows(c) ==
    {[head |-> keys(c)[w[1] + 1], tail |-> SubSeq(c.tail, w[1] + 1, w[2])] :
         w \in {x \in (0..(len(c) - 1)) \X (0..(len(c) - 1)) : x[1] <= x[2]}}

\* C14: merge fails with MergeError and leaves self unchanged when neither
\* chain's first key occurs in the other chain, and also when a first key is
\* found but the keys of the two chains differ at some position of their
\* overlap; merging a chain with a sub-window of itself succeeds and leaves
\* self unchanged.
C14_MergeErrors ==
    /\ \A other \in InputChains :
           (~has_key(chain, first_key(other)) /\ ~has_key(other, first_key(chain)))
               => merge(chain, other) = [chain |-> chain, ret |-> "MergeError"]
    /\ \A other \in InputChains :
           (\/ has_key(chain, first_key(other)) /\ DifferOnOverlap(chain, other)
            \/ /\ ~has_key(chain, first_key(other))
               /\ has_key(other, first_key(chain))
               /\ DifferOnOverlap(other, chain))
               => merge(chain, other) = [chain |-> chain, ret |-> "MergeError"]
    /\ \A other \in Windows(chain) :
           merge(chain, other) = [chain |-> chain, ret |-> "Ok"]

\* the index of the first occurrence of a key in a chain that holds it
PositionIn(c, key) ==
    CHOOSE i \in 0..(len(c) - 1) :
        keys(c)[i + 1] = key /\ \A j \in 0..(i - 1) : keys(c)[j + 1] # key

\* C15: extend error outcomes. extend(new_first_key, full_chain) returns
\* AlreadySufficient whenever new_first_key is already in self, whatever
\* full_chain is; otherwise InvalidFirstKey when new_first_key is not in
\* full_chain or its index in full_chain is greater than the index of self's
\* last key; otherwise InvalidLastKey when self's last key is not in
\* full_chain; in every error case self is unchanged.
C15_ExtendErrors ==
    cop.op = "extend" =>
        LET first_known == has_key(cpre, cop.new_first_key)
            first_found == has_key(cop.full_chain, cop.new_first_key)
            last_found  == has_key(cop.full_chain, last_key(cpre))
        IN  /\ first_known => cret = "AlreadySufficient"
            /\ (/\ ~first_known
                /\ \/ ~first_found
                   \/ /\ last_found
                      /\ PositionIn(cop.full_chain, cop.new_first_key)
                             > PositionIn(cop.full_chain, last_key(cpre)))
                   => cret = "InvalidFirstKey"
            /\ (~first_known /\ first_found /\ ~last_found) => cret = "InvalidLastKey"
            /\ cret # "Ok" => chain = cpre

\* C15 witness: an extend whose new first key is new to self and comes after
\* self's last key in full_chain was refused with InvalidFirstKey.
C15_Witness ==
    /\ cop.op = "extend"
    /\ ~has_key(cpre, cop.new_first_key)
    /\ has_key(cop.full_chain, cop.new_first_key)
    /\ has_key(cop.full_chain, last_key(cpre))
    /\ PositionIn(cop.full_chain, cop.new_first_key)
           > PositionIn(cop.full_chain, last_key(cpre))
    /\ cret = "InvalidFirstKey"
    /\ chain = cpre

\* C16: extend success. When extend(new_first_key, full_chain) returns Ok, self
\* equals full_chain.slice(i..=j) with i the index of new_first_key and j the
\* index of self's previous last key in full_chain, so the new first key is
\* new_first_key and the last key is the same as before the call.
C16_ExtendSuccess ==
    (cop.op = "extend" /\ cret = "Ok") =>
        LET i == PositionIn(cop.full_chain, cop.new_first_key)
            j == PositionIn(cop.full_chain, last_key(cpre))
        IN  /\ keys(chain) = SubSeq(keys(cop.full_chain), i + 1, j + 1)
            /\ chain.tail = SubSeq(cop.full_chain.tail, i + 1, j)
            /\ first_key(chain) = cop.new_first_key
            /\ last_key(chain) = last_key(cpre)

\* C16 witness: the one-key chain [K1] extended with a three-key full chain
\* [K0, K1, K2] and K0 became [K0, K1].
C16_Witness ==
    /\ cop.op = "extend"
    /\ cret = "Ok"
    /\ len(cpre) = 1
    /\ len(cop.full_chain) = 3
    /\ NoDuplicateKeys(cop.full_chain)
    /\ keys(cop.full_chain)[1] = cop.new_first_key
    /\ keys(cop.full_chain)[2] = first_key(cpre)
    /\ keys(chain) = <<cop.new_first_key, first_key(cpre)>>

(***************************************************************************)
(* Claims about merge of slices (specification SpecSlices)                 *)
(***************************************************************************)
\* C12: merge reconstructs a chain from overlapping slices. For every chain C
\* built by valid pushes with n keys and all 0 <= i <= j < n, merging
\* C.slice(..=j) and C.slice(i..), with either one as self and the other as
\* argument, succeeds and leaves self equal to C, so self_verify holds on the
\* result.
C12_MergeRebuildsChain ==
    cop.op = "merge_slices" =>
        /\ cret = "Ok"
        /\ TheOne(view) = chain
        /\ self_verify(TheOne(view))

\* C12 witness: a chain of three keys; the slice from a later key on, merged
\* with the slice up to a key before the last one, became the whole chain.
C12_Witness ==
    /\ cop.op = "merge_slices"
    /\ len(chain) = 3
    /\ cop.i >= 1 /\ cop.j < 2
    /\ first_key(cpre) # first_key(chain)
    /\ last_key(cop.other) # last_key(chain)
    /\ cret = "Ok"
    /\ TheOne(view) = chain

(***************************************************************************)
(* Claims about slice (specification SpecPush)                             *)
(***************************************************************************)
\* the start (inclusive) and end (exclusive) of a range after bound
\* conversion, in IndexBits-bit unsigned arithmetic, for a chain of n keys
ConvertedStart(bound) ==
    CASE bound.kind = "Included" -> bound.index
      [] bound.kind = "Excluded" -> (bound.index + 1) % (2^IndexBits)
      [] OTHER -> 0

ConvertedEnd(bound, n) ==
    CASE bound.kind = "Included" -> (bound.index + 1) % (2^IndexBits)
      [] bound.kind = "Excluded" -> bound.index
      [] OTHER -> n

\* C17: slice clamps. For a chain with n keys and any range with start s
\* (inclusive) and end e (exclusive) after bound conversion, slice returns the
\* chain whose keys are the original keys at indices s'..e' with
\* s' = min(s, n-1) and e' = max(min(e, n), s'+1); the result always has at
\* least one key, an empty or inverted range yields the one-key chain holding
\* key s', and a start beyond the end yields the one-key chain holding the
\* last key.
C17_SliceClamps ==
    (cop.op = "slice" /\ view # None) =>
        LET n  == len(cpre)
            s  == ConvertedStart(cop.start_bound)
            e  == ConvertedEnd(cop.end_bound, n)
            s1 == IF s <= n - 1 THEN s ELSE n - 1
            m  == IF e <= n THEN e ELSE n
            e1 == IF m >= s1 + 1 THEN m ELSE s1 + 1
            result == TheOne(view)
        IN  /\ keys(result) = [i \in 1..(e1 - s1) |-> keys(cpre)[s1 + i]]
            /\ result.tail = [i \in 1..(e1 - s1 - 1) |-> cpre.tail[s1 + i]]
            /\ len(result) >= 1
            /\ e <= s => keys(result) = <<keys(cpre)[s1 + 1]>>
            /\ s >= n => keys(result) = <<last_key(cpre)>>

\* C17 witness: an inverted range on a chain of three keys, starting after
\* the first key and inside the chain, gave the one-key chain of its start.
C17_Witness ==
    /\ cop.op = "slice"
    /\ view # None
    /\ len(cpre) = 3
    /\ ConvertedStart(cop.start_bound) \in 1..2
    /\ ConvertedEnd(cop.end_bound, 3) < ConvertedStart(cop.start_bound)
    /\ keys(TheOne(view)) = <<keys(cpre)[ConvertedStart(cop.start_bound) + 1]>>

\* C18: slice never panics for any range bounds; in particular for an
\* inclusive end bound or exclusive start bound equal to the maximum value of
\* the index type, where the code computes index + 1 in machine-width unsigned
\* arithmetic, slice still returns a non-empty chain, clamped as the range
\* with index + 1 not overflowed is.
C18_SliceNeverPanics ==
    cop.op = "slice" =>
        /\ cret = "Ok"
        /\ view # None
        /\ LET n  == len(cpre)
               s  == CASE cop.start_bound.kind = "Included" -> cop.start_bound.index
                       [] cop.start_bound.kind = "Excluded" -> cop.start_bound.index + 1
                       [] OTHER -> 0
               e  == CASE cop.end_bound.kind = "Included" -> cop.end_bound.index + 1
                       [] cop.end_bound.kind = "Excluded" -> cop.end_bound.index
                       [] OTHER -> n
               s1 == IF s <= n - 1 THEN s ELSE n - 1
               m  == IF e <= n THEN e ELSE n
               e1 == IF m >= s1 + 1 THEN m ELSE s1 + 1
           IN  /\ len(TheOne(view)) >= 1
               /\ keys(TheOne(view)) = [i \in 1..(e1 - s1) |-> keys(cpre)[s1 + i]]

(***************************************************************************)
(* Claims about SectionPeers::update (specification SpecPeers)             *)
(***************************************************************************)
\* the (old state, new state) pairs that replace a record whatever the ages
Replacing == {<<"Joined", "Left">>, <<"Joined", "Relocated">>, <<"Relocated", "Left">>}

\* C19: update transition table. For a peer name with no record the new
\* record is inserted unconditionally; for a name with a record the new record
\* replaces it exactly when (old state, new state) is Joined->Joined with
\* strictly greater age, Joined->Left, Joined->Relocated or Relocated->Left;
\* in every other case update returns false and the old record and all other
\* records are unchanged; update returns true exactly when the members map
\* changed.
C19_TransitionTable ==
    pop # None =>
        LET new == TheOne(pop)
            old == {r \in ppre : r.value.peer.name = new.value.peer.name}
        IN  /\ old = {} => (members = ppre \cup {new} /\ pret)
            /\ old # {} =>
                   LET was == TheOne(old).value
                       replaces ==
                           \/ /\ was.state.tag = "Joined"
                              /\ new.value.state.tag = "Joined"
                              /\ new.value.peer.age > was.peer.age
                           \/ <<was.state.tag, new.value.state.tag>> \in Replacing
                   IN  IF replaces
                       THEN members = (ppre \ old) \cup {new} /\ pret
                       ELSE members = ppre /\ ~pret
            /\ pret <=> members # ppre
            /\ Cardinality(old) <= 1

\* C19 witness: a Joined record of greater age replaced the Joined record of
\* the same peer while the record of another peer stayed.
C19_Witness ==
    /\ pop # None
    /\ pret
    /\ TheOne(pop).value.state.tag = "Joined"
    /\ \E r \in ppre :
           /\ r.value.peer.name = TheOne(pop).value.peer.name
           /\ r.value.state.tag = "Joined"
           /\ r.value.peer.age < TheOne(pop).value.peer.age
           /\ r \notin members
    /\ TheOne(pop) \in members
    /\ \E r \in ppre : r.value.peer.name # TheOne(pop).value.peer.name /\ r \in members

\* C20: update is idempotent. For every state and every record r, applying
\* update(r) a second time immediately after the first returns false and
\* leaves the members map equal to the map after the first application.
C20_UpdateIdempotent ==
    \A r \in SignedMembers :
        LET once  == update(members, r)
            twice == update(once.members, r)
        IN  twice.ret = FALSE /\ twice.members = once.members

\* C20 witness: update was called with the record the map already holds for
\* that peer, a Joined record; it returned false and the map is as it was.
C20_Witness ==
    /\ pop # None
    /\ TheOne(pop) \in ppre
    /\ TheOne(pop).value.state.tag = "Joined"
    /\ ~pret
    /\ members = ppre

\* the record the member set holds for a peer name (Option)
RecordOf(ms, name) == {r \in ms : r.value.peer.name = name}

\* one step of a peer's record: a Left record stays as it is, a Relocated or
\* Left peer does not become Joined, a peer that stays Joined does not get
\* younger
MovesForward(name) ==
    \A was \in RecordOf(members, name) :
        /\ was.value.state.tag = "Left" => RecordOf(members', name) = {was}
        /\ was.value.state.tag \in {"Relocated", "Left"} =>
               \A now \in RecordOf(members', name) : now.value.state.tag # "Joined"
        /\ was.value.state.tag = "Joined" =>
               \A now \in RecordOf(members', name) :
                   now.value.state.tag = "Joined" => now.value.peer.age >= was.value.peer.age
        /\ RecordOf(members', name) # {}

\* C21: Left is absorbing and membership state only moves forward. Once a
\* peer's record is Left, no sequence of update calls changes that record;
\* over any sequence of update calls a peer's state never goes from Relocated
\* or Left back to Joined, and while it stays Joined its recorded age never
\* decreases.
C21_StateMovesForward == [][\A name \in PeerNames : MovesForward(name)]_vars

\* C21 witness: a Joined record of greater age came for a peer whose record
\* is Left; update refused it and the Left record is still there.
C21_Witness ==
    /\ pop # None
    /\ TheOne(pop).value.state.tag = "Joined"
    /\ \E was \in RecordOf(ppre, TheOne(pop).value.peer.name) :
           /\ was.value.state.tag = "Left"
           /\ was.value.peer.age < TheOne(pop).value.peer.age
           /\ was \in members
    /\ ~pret

(***************************************************************************)
(* Claims about Section calls (specification SpecSection): each holds of   *)
(* every call that can be made on the Section of a reachable state         *)
(***************************************************************************)
\* the signature of a Proven value is good: made by the key it names, over
\* the value
GoodSignature(p) == p.proof.signature.signer = p.proof.public_key /\ p.proof.signature.intact

\* C22: update_elders fails atomically. When new_elders_info does not
\* self-verify, or when pushing its signing key with new_key_proof's signature
\* onto the chain is rejected (key already in the chain, or signature not by
\* the current last key), update_elders returns false and members,
\* elders_info and chain are all unchanged.
C22_UpdateEldersAtomic ==
    section # None =>
        LET s == TheOne(section) IN
        \A new_elders_info \in ProvenEldersInfos :
        \A new_key_proof \in KeyProofs(s.chain, new_elders_info.proof.public_key) :
            LET key == new_elders_info.proof.public_key
                r   == update_elders(s, new_elders_info, new_key_proof)
            IN  (\/ ~GoodSignature(new_elders_info)
                 \/ \E i \in 1..len(s.chain) : keys(s.chain)[i] = key
                 \/ new_key_proof.signature # Sign(last_key(s.chain), key))
                    => (/\ r.ret = FALSE
                        /\ r.section.members = s.members
                        /\ r.section.elders_info = s.elders_info
                        /\ r.section.chain = s.chain)

\* C22 witness: an update_elders call on a Section that holds a member and a
\* chain of two keys returned false.
C22_Witness ==
    /\ section # None
    /\ sop = "update_elders"
    /\ sret = "false"
    /\ len(TheOne(section).chain) = 2
    /\ TheOne(section).members # {}

\* C23: update_elders success. When update_elders returns true, the chain is
\* the old chain with exactly one key appended, that last key is the signing
\* key of the new elders_info, elders_info equals the argument, every
\* remaining member's name matches the new prefix, and every previous member
\* whose name matches the new prefix is kept unchanged.
C23_UpdateEldersSuccess ==
    section # None =>
        LET s == TheOne(section) IN
        \A new_elders_info \in ProvenEldersInfos :
        \A new_key_proof \in KeyProofs(s.chain, new_elders_info.proof.public_key) :
            LET r == update_elders(s, new_elders_info, new_key_proof)
                prefix == new_elders_info.value.prefix
            IN  r.ret =>
                    /\ Len(r.section.chain.tail) = Len(s.chain.tail) + 1
                    /\ SubSeq(r.section.chain.tail, 1, Len(s.chain.tail)) = s.chain.tail
                    /\ r.section.chain.head = s.chain.head
                    /\ last_key(r.section.chain) = new_elders_info.proof.public_key
                    /\ r.section.elders_info = new_elders_info
                    /\ \A m \in r.section.members :
                           /\ IsPrefixOf(prefix, m.value.peer.name)
                           /\ m \in s.members
                    /\ \A m \in s.members :
                           IsPrefixOf(prefix, m.value.peer.name) => m \in r.section.members

\* C23 witness: an update_elders call returned true; the elders_info now has
\* the prefix of the half that starts with 0, is signed by the second and
\* last key of the chain, and a member of that half is still there.
C23_Witness ==
    /\ section # None
    /\ sop = "update_elders"
    /\ sret = "true"
    /\ len(TheOne(section).chain) = 2
    /\ last_key(TheOne(section).chain) = TheOne(section).elders_info.proof.public_key
    /\ TheOne(section).elders_info.value.prefix = <<0>>
    /\ TheOne(section).members # {}

\* C24: update_member drops unverifiable records. When the Proven member
\* record does not verify against the section's current chain (its proof key
\* is not in the chain or its signature is bad), update_member returns false
\* and members, elders_info and chain are unchanged; otherwise its result and
\* effect on members are exactly those of SectionPeers::update, and
\* elders_info and chain are unchanged.
C24_UpdateMember ==
    section # None =>
        LET s == TheOne(section) IN
        \A member_info \in ProvenMembers :
            LET r == update_member(s, member_info)
                verifies ==
                    /\ \E i \in 1..len(s.chain) : keys(s.chain)[i] = member_info.proof.public_key
                    /\ GoodSignature(member_info)
            IN  /\ r.section.elders_info = s.elders_info
                /\ r.section.chain = s.chain
                /\ ~verifies => (r.ret = FALSE /\ r.section.members = s.members)
                /\ verifies => (/\ r.ret = update(s.members, member_info).ret
                                /\ r.section.members = update(s.members, member_info).members)

\* C24 witness: an update_member call returned true and the Section holds a
\* member record signed by a key of its chain that is not the last one.
C24_Witness ==
    /\ section # None
    /\ sop = "update_member"
    /\ sret = "true"
    /\ \E m \in TheOne(section).members :
           /\ m.proof.public_key # last_key(TheOne(section).chain)
           /\ \E i \in 1..len(TheOne(section).chain) :
                  keys(TheOne(section).chain)[i] = m.proof.public_key

\* C25: Section::new returns an error (Error::InvalidMessage) exactly when the
\* public key of elders_info's proof is not one of the keys of the supplied
\* chain; otherwise it returns a Section holding that chain, that elders_info
\* and an empty member set (of every call made while there is no Section).
C25_NewError ==
    section = None =>
        \A c \in InputChains, elders_info \in ProvenEldersInfos :
            IF \E i \in 1..len(c) : keys(c)[i] = elders_info.proof.public_key
            THEN Section_new(c, elders_info)
                     = {[chain |-> c, elders_info |-> elders_info, members |-> {}]}
            ELSE Section_new(c, elders_info) = None

\* C25 witness: Section::new was called with an elders_info whose key is not
\* in the chain and returned the error; there is still no Section.
C25_Witness ==
    /\ sop = "new"
    /\ sret = "InvalidMessage"
    /\ section = None

\* the chain lengths trimmed is called with
ChainLens == 0..(MaxChainLen + 2)

\* the last k keys of a chain, with the blocks that carry them
LastKeys(c, k) ==
    [head |-> keys(c)[len(c) - k + 1],
     tail |-> [i \in 1..(k - 1) |-> c.tail[Len(c.tail) - (k - 1) + i]]]

\* C26: trimmed length. For a Section whose chain has n keys,
\* trimmed(chain_len) returns a Section whose chain consists of exactly the
\* last min(max(chain_len, 1), n) keys of the original chain in the same order
\* (so its last key equals the original last key and chain_len 0 is treated as
\* 1), whose elders_info equals the original and whose member set is empty;
\* the original Section is not modified.
C26_TrimmedLength ==
    section # None =>
        LET s == TheOne(section)
            n == len(s.chain)
        IN  /\ \A chain_len \in ChainLens :
                   LET atleast1 == IF chain_len >= 1 THEN chain_len ELSE 1
                       k == IF atleast1 <= n THEN atleast1 ELSE n
                       t == trimmed(s, chain_len)
                   IN  /\ t.chain = LastKeys(s.chain, k)
                       /\ len(t.chain) = k
                       /\ last_key(t.chain) = last_key(s.chain)
                       /\ t.elders_info = s.elders_info
                       /\ t.members = {}
            /\ sop = "trimmed" =>
                   \E chain_len \in ChainLens : snap = {trimmed(s, chain_len)}

\* C26 witness: trimmed on a Section with a member and a chain of three keys
\* returned a Section with the last two keys and no member.
C26_Witness ==
    /\ section # None
    /\ sop = "trimmed"
    /\ snap # None
    /\ len(TheOne(section).chain) = 3
    /\ TheOne(section).members # {}
    /\ keys(TheOne(snap).chain) = SubSeq(keys(TheOne(section).chain), 2, 3)
    /\ TheOne(snap).members = {}

(***************************************************************************)
(* Claims about PrefixMap::insert (specification SpecMap)                  *)
(***************************************************************************)
\* a is a strict extension of b: longer, and starting with the bits of b
StrictExtension(a, b) == Len(a) > Len(b) /\ \A i \in 1..Len(b) : a[i] = b[i]

\* the entry passed to the last insert
InsertedEntry == [prefix |-> mop.prefix, value |-> mop.value]

C28_InsertIdempotent ==
    \A entry \in Entries :
        LET once == insert(map, entry).map
        IN  insert(once, entry).map = once

\* C28 witness: an entry was inserted into a map that holds it already,
\* beside another entry, and the map is as it was.
C28_Witness ==
    /\ mop.op = "insert"
    /\ InsertedEntry \in mpre
    /\ Cardinality(mpre) >= 2
    /\ map = mpre

\* every name under prefix p lies under one of the stored strict extensions of p
CoveredByDescendants(m, p) ==
    \A name \in Names :
        (\A i \in 1..Len(p) : name[i] = p[i]) =>
            \E e \in m :
                /\ StrictExtension(e.prefix, p)
                /\ \A i \in 1..Len(e.prefix) : name[i] = e.prefix[i]

\* the last call was an insert at a prefix of which no stored prefix was a
\* strict extension
AcceptedInsert ==
    /\ mop.op = "insert"
    /\ \A e \in mpre : ~StrictExtension(e.prefix, mop.prefix)

\* C35: when no stored prefix is a strict extension of the entry's prefix,
\* insert stores the entry, so that get(prefix) returns it; it returns the
\* entry stored at exactly that prefix before the call (None when there was
\* none); and it changes no other entry, except that it removes the ancestors
\* of the inserted prefix that are now covered by their stored descendants.
C35_InsertFrame ==
    AcceptedInsert =>
        /\ get(map, mop.prefix) = {InsertedEntry}
        /\ mret = {e \in mpre : e.prefix = mop.prefix}
        /\ \A e \in map : e.prefix # mop.prefix => e \in mpre
        /\ \A e \in mpre :
               e.prefix # mop.prefix =>
                   (e \notin map <=> ( /\ StrictExtension(mop.prefix, e.prefix)
                                       /\ CoveredByDescendants(map, e.prefix) ))

\* C35 witness: an accepted insert at a prefix that held nothing stored the
\* entry, removed an ancestor that became covered and kept an entry that is
\* no ancestor.
C35_Witness ==
    /\ AcceptedInsert
    /\ mret = None
    /\ get(map, mop.prefix) = {InsertedEntry}
    /\ \E e \in mpre \ map : StrictExtension(mop.prefix, e.prefix)
    /\ \E e \in mpre \cap map : ~StrictExtension(mop.prefix, e.prefix)

MatchingEntries(m, name) ==
    {e \in m : Len(e.prefix) <= Len(name) /\ \A i \in 1..Len(e.prefix) : e.prefix[i] = name[i]}

\* C29: get_matching(name) returns the stored entry with the greatest
\* bit-count among all stored entries whose prefix matches name and returns
\* None exactly when no stored prefix matches name; in every reachable map no
\* two distinct stored entries that both match the same name have the same
\* bit-count, so the result is unique.
C29_GetMatching ==
    /\ mop.op = "get_matching" =>
           /\ mret = None <=> MatchingEntries(map, mop.prefix) = {}
           /\ Cardinality(mret) <= 1
           /\ \A found \in mret :
                  /\ found \in MatchingEntries(map, mop.prefix)
                  /\ \A e \in MatchingEntries(map, mop.prefix) :
                         Len(e.prefix) <= Len(found.prefix)
    /\ \A name \in Names :
           \A e1, e2 \in MatchingEntries(map, name) :
               Len(e1.prefix) = Len(e2.prefix) => e1 = e2

\* C29 witness: two stored prefixes of different length match the name and
\* get_matching returned the entry of the longer one.
C29_Witness ==
    /\ mop.op = "get_matching"
    /\ Cardinality(MatchingEntries(map, mop.prefix)) = 2
    /\ \E found \in mret :
           \E e \in MatchingEntries(map, mop.prefix) : Len(e.prefix) < Len(found.prefix)

\* the stored entries at the queried prefix or at a prefix obtained from it
\* by dropping trailing bits
EqualOrAncestors(m, prefix) ==
    {e \in m : \E n \in 0..Len(prefix) : e.prefix = [i \in 1..n |-> prefix[i]]}

\* C30: get_equal_or_ancestor(prefix) returns the entry stored at the longest
\* prefix that is equal to prefix or obtained from it by dropping trailing
\* bits, the empty (root) prefix included, and returns None exactly when no
\* such prefix is stored; it terminates for every prefix and never returns an
\* entry whose prefix is not equal to or an ancestor of the queried prefix.
C30_GetEqualOrAncestor ==
    mop.op = "get_equal_or_ancestor" =>
        /\ mret = None <=> EqualOrAncestors(map, mop.prefix) = {}
        /\ Cardinality(mret) <= 1
        /\ \A found \in mret :
               /\ found \in EqualOrAncestors(map, mop.prefix)
               /\ \A e \in EqualOrAncestors(map, mop.prefix) :
                      Len(e.prefix) <= Len(found.prefix)

\* C30 witness: nothing is stored at the queried two-bit prefix, its sibling
\* and the root are stored, and the lookup returned the entry of the root.
C30_Witness ==
    /\ mop.op = "get_equal_or_ancestor"
    /\ Len(mop.prefix) = 2
    /\ \E e \in map : Len(e.prefix) = 2 /\ e.prefix # mop.prefix /\ e.prefix[1] = mop.prefix[1]
    /\ \E found \in mret : found.prefix = <<>>


(***************************************************************************)
(* Claims about DkgKey (specification SpecDkg)                             *)
(***************************************************************************)
\* the names and ages of the candidates of an EldersInfo
NamesAndAges(elders_info) ==
    {<<elders_info.elders[i].name, elders_info.elders[i].age>> :
         i \in 1..Len(elders_info.elders)}

\* a and b are the same but for the age of exactly one elder
DifferInOneAge(a, b) ==
    /\ a.prefix = b.prefix
    /\ Len(a.elders) = Len(b.elders)
    /\ \E i \in 1..Len(a.elders) :
           /\ a.elders[i].age # b.elders[i].age
           /\ a.elders[i].name = b.elders[i].name
           /\ a.elders[i].addr = b.elders[i].addr
           /\ \A j \in 1..Len(a.elders) : j # i => a.elders[j] = b.elders[j]

\* C31: DkgKey::new depends only on the candidates and the prefix: when the
\* two elders hold EldersInfo with the same names and ages and the same
\* prefix name and bit count, however each was put together, the DkgKeys they
\* computed are equal; when the two EldersInfo differ only in the age of one
\* elder, the DkgKeys differ.
C31_DkgKeyDeterministic ==
    (dkeys[1] # None /\ dkeys[2] # None) =>
        LET a == TheOne(einfos[1])
            b == TheOne(einfos[2])
        IN  /\ ( /\ NamesAndAges(a) = NamesAndAges(b)
                 /\ Prefix_name(a.prefix) = Prefix_name(b.prefix)
                 /\ bit_count(a.prefix) = bit_count(b.prefix) ) => dkeys[1] = dkeys[2]
            /\ DifferInOneAge(a, b) => dkeys[1] # dkeys[2]

\* both elders computed the key of two-candidate EldersInfo that agree in
\* names, ages and prefix and differ in an address: the keys are equal
C31_Witness ==
    /\ dkeys[1] # None /\ dkeys[2] # None
    /\ einfos[1] # einfos[2]
    /\ Len(TheOne(einfos[1]).elders) = 2
    /\ NamesAndAges(TheOne(einfos[1])) = NamesAndAges(TheOne(einfos[2]))
    /\ TheOne(einfos[1]).prefix = TheOne(einfos[2]).prefix
    /\ dkeys[1] = dkeys[2]


(***************************************************************************)
(* Claims about Section::adults (specification SpecAdults)                 *)
(***************************************************************************)
\* the names that are keys of the elder set of the current elders_info
ElderNames(s) == {e.name : e \in s.elders_info.value.elders}

\* C32: adults() yields exactly the peers of the member records whose state
\* is Joined, whose age is greater than MIN_AGE and whose name is no key of
\* the elder set of the current elders_info; a peer that is Left or
\* Relocated, or is a current elder, is never yielded.
C32_Adults ==
    sop = "adults" =>
        LET s == TheOne(section) IN
        /\ sret = {r.value.peer :
                       r \in {x \in s.members :
                                  /\ x.value.state = Joined
                                  /\ x.value.peer.age > MIN_AGE
                                  /\ x.value.peer.name \notin ElderNames(s)}}
        /\ \A r \in s.members :
               (r.value.state # Joined \/ r.value.peer.name \in ElderNames(s))
                   => r.value.peer \notin sret

\* adults yielded a peer of a section that also holds a record that must not
\* be yielded: one of an elder, or of a member that is not Joined
C32_Witness ==
    /\ sop = "adults"
    /\ sret # {}
    /\ \E r \in TheOne(section).members :
           r.value.state # Joined \/ r.value.peer.name \in ElderNames(TheOne(section))


(***************************************************************************)
(* Claims about TryFrom<QueryResponse> (specification SpecQuery)           *)
(***************************************************************************)
\* C33: converting a QueryResponse into a result type T gives Ok(data) when
\* the response is one of T's accepted variants holding Ok(data) (Map accepts
\* GetMap and GetMapShell), Err(TryFromError::Response(e)) when it is such a
\* variant holding Err(e), and Err(TryFromError::WrongType) for every other
\* variant; a response that carries an error is never converted to Ok.
C33_TryFrom ==
    qop.op = "try_from" =>
        LET response == qop.response
            accepted == response.variant \in variants_of[qop.ok_type]
        IN  /\ (accepted /\ response.tag = "Ok") =>
                   qret = [tag |-> "Ok", payload |-> response.payload]
            /\ (accepted /\ response.tag = "Err") =>
                   qret = [tag |-> "Err", payload |-> <<"Response", response.payload>>]
            /\ ~accepted => qret = [tag |-> "Err", payload |-> <<"WrongType">>]
            /\ response.tag = "Err" => qret.tag # "Ok"
            /\ variants_of["Map"] = {"GetMap", "GetMapShell"}

\* a GetMapShell response holding an error was converted to Map
C33_Witness ==
    /\ qop.op = "try_from"
    /\ qop.ok_type = "Map"
    /\ qop.response.variant = "GetMapShell"
    /\ qop.response.tag = "Err"
    /\ qret = [tag |-> "Err", payload |-> <<"Response", qop.response.payload>>]


(***************************************************************************)
(* Claims about the verification result (specification SpecVerify)         *)
(***************************************************************************)
\* C37: a chain classified Invalid is never accepted as verified.  Turning a
\* TrustStatus into Result<VerifyStatus> maps Trusted to Ok(Full), Unknown to
\* Ok(Unknown) and Invalid to Err(InvalidMessage); so a message whose proof
\* chain has an invalidly signed block after its latest trusted key never
\* obtains VerifyStatus::Full.
C37_InvalidNeverVerified ==
    vstatus # [tag |-> "none", value |-> "unconverted"] =>
        /\ tstatus = "Trusted" => vstatus = [tag |-> "Ok", value |-> "Full"]
        /\ tstatus = "Unknown" => vstatus = [tag |-> "Ok", value |-> "Unknown"]
        /\ tstatus = "Invalid" => vstatus = [tag |-> "Err", value |-> "InvalidMessage"]
        /\ ( /\ TrustedIndices(tchain, trusted) # {}
             /\ \E i \in BadBlocks(tchain) :
                    \A j \in TrustedIndices(tchain, trusted) : j < i )
               => vstatus # [tag |-> "Ok", value |-> "Full"]

\* C37 witness: a chain with a trusted key and a bad block after the latest
\* trusted key was checked, and the status was turned into Err(InvalidMessage).
C37_Witness ==
    /\ vstatus = [tag |-> "Err", value |-> "InvalidMessage"]
    /\ TrustedIndices(tchain, trusted) # {}
    /\ \E i \in BadBlocks(tchain) : \A j \in TrustedIndices(tchain, trusted) : j < i


(***************************************************************************)
(* Claims about the two lookups together (specification SpecLookup)        *)
(***************************************************************************)
\* Prefix::new(W, name): the prefix made of all W bits of a name
FullPrefix(name) == [i \in 1..W |-> name[i]]

\* C39: the two longest-prefix lookups agree.  In every reachable PrefixMap
\* and for every name of the address width W, get_matching(name) returns the
\* entry (or None) that get_equal_or_ancestor returns for the W-bit prefix
\* formed from the name.
C39_LookupsAgree ==
    /\ \A name \in Names :
           get_matching(map, name) = get_equal_or_ancestor(map, FullPrefix(name))
    /\ mop.op = "get_matching" =>
           mret = get_equal_or_ancestor(mpre, FullPrefix(mop.prefix))

\* C39 witness: get_matching found, in a map of several entries, an entry
\* stored at a proper ancestor of the name that is not the root, which is
\* what get_equal_or_ancestor finds for the full prefix.
C39_Witness ==
    /\ mop.op = "get_matching"
    /\ Cardinality(mpre) >= 2
    /\ \E found \in mret : 0 < Len(found.prefix) /\ Len(found.prefix) < W
    /\ mret = get_equal_or_ancestor(mpre, FullPrefix(mop.prefix))

====
